---- MODULE Spec2Model ----
(***************************************************************************)
(* cloud_eval: the suite runner (suite.py), the run orchestrator           *)
(* (runner.py), the scenario loader (scenario.py) and the OpenAI agent     *)
(* loop (agents/openai_agent.py).                                          *)
(*                                                                         *)
(* Scores, weights and penalties are integers in thousandths (1.0 = 1000). *)
(* Durations and max_time_seconds are whole seconds.                       *)
(***************************************************************************)
EXTENDS Integers, Sequences, FiniteSets, TLC

VARIABLES
    scenarios,      \* meta.json files yielded by _discover_scenarios, in order
    agent,          \* the AgentDefinition handed to run_suite (or None)
    osEnviron,      \* os.environ of the process
    idx,            \* position of run_suite's for loop (1-based)
    pc,             \* where the suite run is
    scenario,       \* the Scenario load_scenario returned for scenarios[idx]
    env,            \* the env dict handed to run_agent
    turn,           \* chat-completion calls made by run_agent so far
    lastReply,      \* the model reply handled on the latest turn
    agentActions,   \* run_agent's local list `actions`
    agentExit,      \* how run_agent / the agent module ended
    actions,        \* EvaluationRunner.run's `actions`
    verifyCalls,    \* calls of _run_verification in the current run
    verifierOutcome,\* what the verifier did in the current run (kind, result)
    verification,   \* EvaluationRunner.run's `verification`
    metrics,        \* what _score produced in the current run
    reports,        \* report files written so far, in order
    escaped,        \* the exception that ended run_suite ("" if none)
    given,          \* the arguments of a call of one function on its own
    returned,       \* what that call returned (or raised)
    agg,            \* aggregate_reports under way: the run, the paths visited,
                    \* its local `summary`, and what write_summary has written
    registry,       \* ToolRegistry._tools: the tools, in insertion order
    task_store,     \* service.py's task_store: run id -> task entry
    tasks,          \* the background tasks evaluate() created: run id -> position
    client          \* the service's client: the run it just posted, and the
                    \* response to its latest status request

\* the state of a suite run
suiteVars == <<scenarios, agent, osEnviron, idx, pc, scenario, env, turn, lastReply,
               agentActions, agentExit, actions, verifyCalls, verifierOutcome,
               verification, metrics, reports, escaped>>

\* the state of the service
serviceVars == <<task_store, tasks, client>>

\* the state outside a suite run: a call of one function on its own, the
\* tool registry, the service
callVars == <<given, returned, agg, registry, task_store, tasks, client>>

vars == <<scenarios, agent, osEnviron, idx, pc, scenario, env, turn, lastReply,
          agentActions, agentExit, actions, verifyCalls, verifierOutcome,
          verification, metrics, reports, escaped, given, returned, agg,
          registry, task_store, tasks, client>>

(***************************************************************************)
(* Values                                                                  *)
(***************************************************************************)
None == [tag |-> "None"]

\* no function is being called on its own
NoCall == [fn |-> ""]

\* no aggregation is under way
NoAggregation == [run |-> 0]

\* the client has sent nothing
NoClient == [posted |-> "", response |-> [tag |-> "None"]]

Raised(name) == [tag |-> "raise", exc |-> name]

IsRaised(v) == "tag" \in DOMAIN v /\ v.tag = "raise"

Max(a, b) == IF a >= b THEN a ELSE b

Min(a, b) == IF a <= b THEN a ELSE b

\* dict.get(key, default)
Get(d, k, default) == IF k \in DOMAIN d THEN d[k] ELSE default

\* dict.update(other): the entries of other win
Update(d, other) ==
    [k \in DOMAIN d \cup DOMAIN other |-> IF k \in DOMAIN other THEN other[k] ELSE d[k]]

EmptyDict == [k \in {} |-> ""]

\* the number of turns of run_agent's for loop
MaxTurns == 6

\* 0.02 per error action, in thousandths
PenaltyPerError == 20

\* the longest list of discovered scenarios
MaxScenarios == 2

(***************************************************************************)
(* scenario.py                                                             *)
(***************************************************************************)
DifficultyLevel == {"easy", "medium", "hard"}

\* meta.json files: "scoring" is absent (an empty dict) or a dict; an absent
\* max_steps or max_time_seconds (Python None) is 0, which is as falsy
MetaFiles ==
    { [task_id |-> "sns-topic", difficulty |-> "easy", max_steps |-> 4,
       scoring |-> EmptyDict],
      [task_id |-> "s3-bucket", difficulty |-> "medium", max_steps |-> 0,
       scoring |-> [weights |-> [latency |-> 500, steps |-> 500], max_time_seconds |-> 10]],
      [task_id |-> "sqs-queue", difficulty |-> "hard", max_steps |-> 4,
       scoring |-> [weights |-> [latency |-> 2000]]],
      [task_id |-> "broken", difficulty |-> "", max_steps |-> 0,
       scoring |-> EmptyDict] }

\* load_scenario: a missing or unknown difficulty raises ValueError; the
\* ScenarioScoring it builds has the fields weights and max_time_seconds only
load_scenario(meta) ==
    IF meta.difficulty \notin DifficultyLevel
    THEN Raised("ValueError")
    ELSE [tag |-> "Scenario",
          metadata |-> [task_id |-> meta.task_id,
                        difficulty |-> meta.difficulty,
                        max_steps |-> meta.max_steps],
          scoring |-> [weights |-> Get(meta.scoring, "weights", [resource_correctness |-> 1000]),
                       max_time_seconds |-> Get(meta.scoring, "max_time_seconds", 0)]]

(***************************************************************************)
(* agent_config.py, runner.py: the agent's environment                     *)
(***************************************************************************)
AgentModule == "agents.openai_agent"

\* AgentDefinition values the catalog can hold; an absent module or model
\* (Python None) is "", which is as falsy
AgentDefinitions ==
    { [name |-> "openai", module |-> AgentModule, env |-> EmptyDict,
       credentials_env |-> [OPENAI_API_KEY |-> "MY_OPENAI_KEY"], model |-> "gpt-4o"],
      [name |-> "envmodel", module |-> AgentModule, env |-> EmptyDict,
       credentials_env |-> [OPENAI_API_KEY |-> "OPENAI_API_KEY"], model |-> ""],
      [name |-> "bare", module |-> AgentModule, env |-> EmptyDict,
       credentials_env |-> EmptyDict, model |-> "gpt-4o"],
      [name |-> "redirect", module |-> AgentModule,
       env |-> [ENDPOINT_URL |-> "http://elsewhere:4566"],
       credentials_env |-> [OPENAI_API_KEY |-> "MY_OPENAI_KEY"], model |-> "gpt-4o"],
      [name |-> "nomodule", module |-> "", env |-> EmptyDict,
       credentials_env |-> EmptyDict, model |-> ""] }

\* os.environ of the process
Environs ==
    { [MY_OPENAI_KEY |-> "sk-test", ENDPOINT_URL |-> "http://localstack:4566"],
      [OPENAI_API_KEY |-> "sk-nonascii", OPENAI_MODEL |-> "gpt-env"],
      EmptyDict }

NonAsciiKeys == {"sk-nonascii"}

Endpoint == "http://localstack:4566"

RECURSIVE ForwardCredentials(_, _, _, _)
\* the loop over agent.credentials_env.items(): a set source is copied to dest
ForwardCredentials(e, creds, environ, todo) ==
    IF todo = {} THEN e
    ELSE LET dest == CHOOSE d \in todo : TRUE
             value == Get(environ, creds[dest], "")
         IN ForwardCredentials(IF value # "" THEN Update(e, [k \in {dest} |-> value]) ELSE e,
                               creds, environ, todo \ {dest})

\* EvaluationRunner._assemble_agent_env. The logger.debug call after the
\* credentials loop reads the loop variable `source`, which is unbound when
\* credentials_env has no entries.
_assemble_agent_env(environ, ag, scenario_path, endpoint) ==
    LET base == Update(environ, [SCENARIO_PATH |-> scenario_path, ENDPOINT_URL |-> endpoint])
    IN IF ag = None THEN base
       ELSE LET withEnv == Update(base, ag.env)
                withCreds == ForwardCredentials(withEnv, ag.credentials_env, environ,
                                                DOMAIN ag.credentials_env)
            IN IF DOMAIN ag.credentials_env = {} THEN Raised("UnboundLocalError")
               ELSE IF ag.model # ""
               THEN Update(withCreds, [OPENAI_MODEL |-> ag.model])
               ELSE withCreds

\* _validate_env: the exception it raises, "" when the key is accepted
_validate_env(e) ==
    LET api_key == Get(e, "OPENAI_API_KEY", "")
    IN IF api_key = "" THEN "ValueError"
       ELSE IF api_key \in NonAsciiKeys THEN "ValueError"
       ELSE ""

(***************************************************************************)
(* agents/openai_agent.py: run_agent                                       *)
(***************************************************************************)
\* names held by REGISTRY (tools.py registers aws_cli at import)
RegisteredTools == {"aws_cli"}

\* REGISTRY.get(name) finds a tool
REGISTRY_get(name) == name \in RegisteredTools

\* What one chat-completion call can bring back.
\*   kind      "api_error": the call raises; "text": no function_call;
\*             "call": a function_call
\*   name      the requested tool
\*   arguments "malformed": not JSON; "no_command": JSON without the key
\*             command; "blank": a blank command; "valid": a command
\*   rc        the exit code the executed command reports
Replies ==
    { [kind |-> "api_error", name |-> "", arguments |-> "", rc |-> 0],
      [kind |-> "text", name |-> "", arguments |-> "", rc |-> 0] }
    \cup [kind : {"call"}, name : {"aws_cli", "rm_rf"},
          arguments : {"malformed", "no_command", "blank"}, rc : {0}]
    \cup [kind : {"call"}, name : {"aws_cli", "rm_rf"},
          arguments : {"valid"}, rc : {0, 1}]

NoReply == [kind |-> "", name |-> "", arguments |-> "", rc |-> 0]

\* an off-by-one loop bound: one iteration too many
LoopContinuesInclusive(t) == t <= MaxTurns

\* for _ in range(6): another iteration follows t completed ones
LoopContinues(t) == t < MaxTurns

\* json.loads(function_call.arguments or "{}") succeeds
ArgsParse(reply) == reply.arguments # "malformed"

\* aws_cli_tool and _build_aws_command: the exception raised before the
\* command is run, "" if none
aws_cli_tool_error(reply, e) ==
    IF Get(e, "ENDPOINT_URL", "") = "" THEN "ValueError"
    ELSE IF reply.arguments = "no_command" THEN "KeyError"
    ELSE IF reply.arguments = "blank" THEN "ValueError"
    ELSE ""

\* the dicts a tool can return: aws_cli_tool's, and one of a tool that reports
\* no return_code
ToolResults ==
    [return_code : {0, 1, 255}, stdout : {"", "out"}] \cup [stdout : {"", "out"}]

\* result.get("return_code") == 0: a missing key gives None, which is not 0
ReturnCodeIsZero(result) ==
    "return_code" \in DOMAIN result /\ result.return_code = 0

\* _record_action: "ok" exactly when result.get("return_code") == 0
_record_action(t, tool, result) ==
    [turn |-> t, action |-> tool,
     status |-> IF ReturnCodeIsZero(result) THEN "ok" ELSE "error"]

\* One iteration of the loop body on a reply: how it leaves the iteration
\* ("next": falls through to the next iteration; "break"; or an exception)
HandleReply(reply, e) ==
    IF reply.kind = "api_error" THEN "APIError"
    ELSE IF reply.kind = "text" THEN "break"
    ELSE IF ~ArgsParse(reply) THEN "JSONDecodeError"
    ELSE IF ~REGISTRY_get(reply.name) THEN "break"
    ELSE IF aws_cli_tool_error(reply, e) # "" THEN aws_cli_tool_error(reply, e)
    ELSE "next"

AgentExceptions ==
    {"ImportError", "RuntimeError", "ValueError", "KeyError", "APIError", "JSONDecodeError"}

(***************************************************************************)
(* runner.py: EvaluationRunner                                             *)
(***************************************************************************)
\* _run_agent_module's conversion of the returned entries into ActionLogs
ActionLogs(entries) ==
    [i \in 1..Len(entries) |->
        [turn |-> entries[i].turn, action |-> entries[i].action, status |-> entries[i].status]]

\* an except branch that hands back what the failed agent had recorded
_run_agent_keepsPartial(exit, entries) == ActionLogs(entries)

\* _run_agent's try/except around _run_agent_module: any exception of the
\* agent module gives the empty list
_run_agent(exit, entries) ==
    IF exit \in AgentExceptions THEN <<>> ELSE ActionLogs(entries)

\* VerificationResult values a task verifier returns (model_dump keeps the
\* shape); timing is not set because the runner calls verify(), not run()
VerifierResults ==
    { [score |-> 1000, passed |-> TRUE, errors |-> <<>>,
       components |-> [exists |-> [value |-> 900, max |-> 900],
                       tags |-> [value |-> 100, max |-> 100]],
       score_details |-> [timing |-> None,
                          components |-> [exists |-> [value |-> 900, max |-> 900],
                                          tags |-> [value |-> 100, max |-> 100]]]],
      [score |-> 10, passed |-> TRUE, errors |-> <<>>,
       components |-> [exists |-> [value |-> 10, max |-> 900],
                       tags |-> [value |-> 0, max |-> 100]],
       score_details |-> [timing |-> None, components |-> EmptyDict]],
      [score |-> 0, passed |-> FALSE, errors |-> <<"Topic not found">>,
       components |-> [exists |-> [value |-> 0, max |-> 900],
                       tags |-> [value |-> 0, max |-> 100]],
       score_details |-> [timing |-> None,
                          components |-> [exists |-> [value |-> 0, max |-> 900],
                                          tags |-> [value |-> 0, max |-> 100]]]] }

\* what can happen inside _run_verification
VerifierOutcomes ==
    {[kind |-> "raised", result |-> None]}
    \cup [kind : {"returned"}, result : VerifierResults]

NoOutcome == [kind |-> "", result |-> None]

\* _run_verification: None when verify.py is missing or anything raises,
\* else the dumped result
_run_verification(has_verify, outcome) ==
    IF ~has_verify THEN None
    ELSE IF outcome.kind = "raised" THEN None
    ELSE outcome.result

\* sum(1 for action in actions if action.status == "error")
ErrorCount(acts) == Cardinality({i \in 1..Len(acts) : acts[i].status = "error"})

\* max(0.0, min(1.0, 1.0 - amount / limit)), 1.0 when the limit is falsy
RatioScore(amount, limit) ==
    IF limit = 0 THEN 1000
    ELSE Max(0, Min(1000, 1000 - (amount * 1000) \div limit))

\* _score, lines 156-174: the score before the penalty is the verifier's
\* score when there is a verification, else the weighted fallback
PrePenaltyScore(acts, duration, verif, scen) ==
    LET latency_score == RatioScore(duration, scen.scoring.max_time_seconds)
        step_score == RatioScore(Len(acts), scen.scoring.max_steps)
        fallback == (latency_score * Get(scen.scoring.weights, "latency", 0)) \div 1000
                    + (step_score * Get(scen.scoring.weights, "steps", 0)) \div 1000
    IN IF verif # None THEN verif.score ELSE fallback

\* EvaluationRunner._score. Line 154 reads self.scenario.scoring.max_steps,
\* an attribute ScenarioScoring does not have.
_score(acts, duration, verif, scen) ==
    IF "max_steps" \notin DOMAIN scen.scoring THEN Raised("AttributeError")
    ELSE LET penalty == ErrorCount(acts) * PenaltyPerError
         IN [tag |-> "metrics",
             duration_seconds |-> duration,
             step_count |-> Len(acts),
             score |-> Max(0, PrePenaltyScore(acts, duration, verif, scen) - penalty),
             error_action_penalty |-> penalty]

\* the synthetic component run() adds to score_details.components; its max
\* (None in the code) is -1 here
PenaltyComponent(penalty) == [value |-> 0 - penalty, max |-> -1]

\* run(), lines 202-213: surface the penalty in verification.score_details
SurfacePenalty(verif, penalty) ==
    IF verif = None THEN verif
    ELSE LET v == IF "score_details" \notin DOMAIN verif
                  THEN Update(verif, [score_details |-> [components |-> verif.components]])
                  ELSE verif
         IN [v EXCEPT !.score_details.components =
                Update(@, [error_action_penalty |-> PenaltyComponent(penalty)])]

\* run(), lines 215-230: the report dict
Report(scen, acts, m, verif, endpoint) ==
    [task_id |-> scen.metadata.task_id,
     actions |-> acts,
     metrics |-> m,
     verification |-> verif,
     endpoint_url |-> endpoint]

\* seconds a run can take
Durations == {0, 5, 20}

(***************************************************************************)
(* State machine: run_suite over the discovered scenarios                  *)
(***************************************************************************)
\* the service is not running: its task_store is empty
ServiceIdle ==
    /\ task_store = EmptyDict
    /\ tasks = EmptyDict
    /\ client = NoClient

RECURSIVE SeqsUpTo(_, _)
\* the sequences over S of length at most n
SeqsUpTo(S, n) ==
    IF n = 0 THEN {<<>>}
    ELSE LET shorter == SeqsUpTo(S, n - 1)
         IN shorter \cup {Append(q, x) : q \in {r \in shorter : Len(r) = n - 1}, x \in S}

\* _discover_scenarios yields one meta.json per registered task id
Init ==
    /\ scenarios \in {q \in SeqsUpTo(MetaFiles, MaxScenarios) :
                        \A i, j \in 1..Len(q) : q[i] = q[j] => i = j}
    /\ agent \in AgentDefinitions \cup {None}
    /\ osEnviron \in Environs
    /\ idx = 0
    /\ pc = "suite"
    /\ scenario = None
    /\ env = EmptyDict
    /\ turn = 0
    /\ lastReply = NoReply
    /\ agentActions = <<>>
    /\ agentExit = ""
    /\ actions = <<>>
    /\ verifyCalls = 0
    /\ verifierOutcome = NoOutcome
    /\ verification = None
    /\ metrics = None
    /\ reports = <<>>
    /\ escaped = ""
    /\ given = NoCall
    /\ returned = None
    /\ agg = NoAggregation
    /\ registry = <<>>
    /\ ServiceIdle

\* the state of one scenario run, as EvaluationRunner.run finds it
FreshRun ==
    /\ env' = EmptyDict
    /\ turn' = 0
    /\ lastReply' = NoReply
    /\ agentActions' = <<>>
    /\ agentExit' = ""
    /\ actions' = <<>>
    /\ verifyCalls' = 0
    /\ verifierOutcome' = NoOutcome
    /\ verification' = None
    /\ metrics' = None

\* run_suite, lines 54-60: no scenario is a SystemExit
SuiteStart ==
    /\ pc = "suite"
    /\ UNCHANGED callVars
    /\ IF scenarios = <<>>
       THEN /\ pc' = "suite_end"
            /\ escaped' = "SystemExit"
            /\ idx' = idx
       ELSE /\ pc' = "load"
            /\ escaped' = escaped
            /\ idx' = 1
    /\ UNCHANGED <<scenarios, agent, osEnviron, scenario, env, turn, lastReply,
                   agentActions, agentExit, actions, verifyCalls, verifierOutcome,
                   verification, metrics, reports>>

\* run_suite, lines 62-71: load_scenario and the runner's construction
LoadScenario ==
    /\ pc = "load"
    /\ UNCHANGED callVars
    /\ LET loaded == load_scenario(scenarios[idx])
       IN IF IsRaised(loaded)
          THEN /\ pc' = "suite_end"
               /\ escaped' = loaded.exc
               /\ scenario' = scenario
          ELSE /\ pc' = "agent"
               /\ escaped' = escaped
               /\ scenario' = loaded
    /\ FreshRun
    /\ UNCHANGED <<scenarios, agent, osEnviron, idx, reports>>

\* what importing the agent module and looking up run_agent can give
ModuleStates == {"import_error", "no_run_agent", "ok"}

\* run() up to the first chat-completion call: _run_agent, lines 75-85,
\* _run_agent_module, lines 92-98, and run_agent, lines 89-97
AgentStart ==
    /\ pc = "agent"
    /\ UNCHANGED callVars
    /\ IF agent = None \/ agent.module = ""
       THEN /\ pc' = "verify"
            /\ UNCHANGED <<env, agentExit, escaped>>
       ELSE LET e == _assemble_agent_env(osEnviron, agent, scenarios[idx].task_id, Endpoint)
            IN IF IsRaised(e)
               THEN /\ pc' = "suite_end"
                    /\ escaped' = e.exc
                    /\ UNCHANGED <<env, agentExit>>
               ELSE /\ env' = e
                    /\ escaped' = escaped
                    /\ \E mod \in ModuleStates :
                         IF mod = "import_error"
                         THEN agentExit' = "ImportError" /\ pc' = "agent_exit"
                         ELSE IF mod = "no_run_agent"
                         THEN agentExit' = "RuntimeError" /\ pc' = "agent_exit"
                         ELSE IF _validate_env(e) # ""
                         THEN agentExit' = _validate_env(e) /\ pc' = "agent_exit"
                         ELSE IF "OPENAI_MODEL" \notin DOMAIN e
                         THEN agentExit' = "KeyError" /\ pc' = "agent_exit"
                         ELSE agentExit' = "" /\ pc' = "loop"
    /\ UNCHANGED <<scenarios, agent, osEnviron, idx, scenario, turn, lastReply,
                   agentActions, actions, verifyCalls, verifierOutcome,
                   verification, metrics, reports>>

\* run_agent, lines 98-136: one iteration of the loop, and the return when
\* the iteration was the last one
ChatTurn ==
    /\ pc = "loop"
    /\ UNCHANGED callVars
    /\ \E reply \in Replies :
         LET how == HandleReply(reply, env)
         IN /\ turn' = turn + 1
            /\ lastReply' = reply
            /\ IF how = "next"
               THEN /\ agentActions' =
                         Append(agentActions, _record_action(turn + 1, reply.name,
                                                       [return_code |-> reply.rc, stdout |-> ""]))
                    /\ IF LoopContinues(turn + 1)
                       THEN pc' = "loop" /\ agentExit' = agentExit
                       ELSE pc' = "agent_exit" /\ agentExit' = "exhausted"
               ELSE /\ agentActions' = agentActions
                    /\ pc' = "agent_exit"
                    /\ agentExit' = how
    /\ UNCHANGED <<scenarios, agent, osEnviron, idx, scenario, env, actions,
                   verifyCalls, verifierOutcome, verification, metrics, reports,
                   escaped>>

\* _run_agent_module, lines 99-110, and _run_agent, lines 84-89
AgentModuleDone ==
    /\ pc = "agent_exit"
    /\ UNCHANGED callVars
    /\ actions' = _run_agent(agentExit, agentActions)
    /\ pc' = "verify"
    /\ UNCHANGED <<scenarios, agent, osEnviron, idx, scenario, env, turn, lastReply,
                   agentActions, agentExit, verifyCalls, verifierOutcome,
                   verification, metrics, reports, escaped>>

\* run(), line 199: _run_verification (verify.py sits next to every
\* discovered meta.json)
RunVerification ==
    /\ pc = "verify"
    /\ UNCHANGED callVars
    /\ \E outcome \in VerifierOutcomes :
         /\ verification' = _run_verification(TRUE, outcome)
         /\ verifierOutcome' = outcome
    /\ verifyCalls' = verifyCalls + 1
    /\ pc' = "finish"
    /\ UNCHANGED <<scenarios, agent, osEnviron, idx, scenario, env, turn, lastReply,
                   agentActions, agentExit, actions, metrics, reports, escaped>>

\* what writing the report file can give
WriteOutcomes == {"ok", "OSError"}

\* run(), lines 200-237, and run_suite, lines 72-80: score, surface the
\* penalty, write the report, go on to the next scenario or, after the last
\* one, to the summary (whose own failures are caught, lines 75-80)
FinishRun ==
    /\ pc = "finish"
    /\ UNCHANGED callVars
    /\ \E duration \in Durations, written \in WriteOutcomes :
         LET m == _score(actions, duration, verification, scenario)
         IN IF IsRaised(m)
            THEN /\ metrics' = m
                 /\ pc' = "suite_end"
                 /\ escaped' = m.exc
                 /\ UNCHANGED <<verification, reports, idx>>
            ELSE /\ metrics' = m
                 /\ verification' = SurfacePenalty(verification, m.error_action_penalty)
                 /\ IF written = "OSError"
                    THEN /\ pc' = "suite_end"
                         /\ escaped' = "OSError"
                         /\ UNCHANGED <<reports, idx>>
                    ELSE /\ reports' = Append(reports,
                                Report(scenario, actions, m, verification', Endpoint))
                         /\ escaped' = escaped
                         /\ IF idx < Len(scenarios)
                            THEN idx' = idx + 1 /\ pc' = "load"
                            ELSE idx' = idx /\ pc' = "suite_end"
    /\ UNCHANGED <<scenarios, agent, osEnviron, scenario, env, turn, lastReply,
                   agentActions, agentExit, actions, verifyCalls, verifierOutcome>>

Next ==
    \/ SuiteStart
    \/ LoadScenario
    \/ AgentStart
    \/ ChatTurn
    \/ AgentModuleDone
    \/ RunVerification
    \/ FinishRun

Spec == Init /\ [][Next]_vars

\* every step of a suite run returns: the chat-completion call, the tool
\* process and the verifier are blocking calls that come back
LiveSpec == Init /\ [][Next]_vars /\ WF_vars(Next)

(***************************************************************************)
(* Properties                                                              *)
(***************************************************************************)
Last(q) == q[Len(q)]

\* the agent phase of the current run is over
AfterAgent == pc \in {"verify", "finish", "suite_end"}

\* _score has been called in the current run
Scored == metrics # None

\* the reply that ended the loop asked for nothing or for an unknown tool
EndingReply ==
    \/ lastReply.kind = "text"
    \/ lastReply.kind = "call" /\ ~REGISTRY_get(lastReply.name)

\* C1: whatever the model replies, run_agent makes at most 6 chat-completion
\* calls, holds at most 6 actions, and leaves its loop.
C1_BoundedAgentLoop ==
    /\ [](turn <= 6 /\ Len(agentActions) <= 6)
    /\ ((pc = "loop") ~> (pc # "loop"))

\* C1 witness: the model asked for a known tool on all six turns
C1_Witness ==
    /\ agentExit = "exhausted"
    /\ turn = 6
    /\ Len(agentActions) = 6

\* C2: once _score has run, the metrics carry a penalty of 0.02 per error
\* action and a score of max(0, pre-penalty score - penalty).
C2_ErrorPenalty ==
    Scored =>
        /\ ~IsRaised(metrics)
        /\ metrics.error_action_penalty = 20 * ErrorCount(actions)
        /\ metrics.score =
             Max(0, PrePenaltyScore(actions, metrics.duration_seconds,
                                    verifierOutcome.result, scenario)
                    - 20 * ErrorCount(actions))

\* C3: when the reply of turn k is plain text or names an unknown tool,
\* run_agent returns the k-1 actions of the earlier turns, in turn order,
\* and makes no further call.
C3_EarlyEndReturnsActions ==
    (pc = "agent_exit" /\ EndingReply) =>
        /\ agentExit = "break"
        /\ Len(agentActions) = turn - 1
        /\ \A i \in 1..Len(agentActions) : agentActions[i].turn = i

\* C4: when a known tool is called with malformed argument JSON on turn k,
\* the suite is not aborted by it and the runner scores the k-1 recorded
\* actions: they are the run's actions, step_count and penalty.
C4_MalformedArgsKeepActions ==
    (AfterAgent /\ agentExit = "JSONDecodeError" /\ REGISTRY_get(lastReply.name)) =>
        /\ escaped # "JSONDecodeError"
        /\ actions = ActionLogs(agentActions)
        /\ Scored =>
             /\ ~IsRaised(metrics)
             /\ metrics.step_count = turn - 1
             /\ metrics.error_action_penalty = 20 * ErrorCount(agentActions)

\* C5: when run_suite is over, every discovered scenario has a report.
C5_EveryScenarioReported ==
    (pc = "suite_end" /\ scenarios # <<>>) =>
        \A i \in 1..Len(scenarios) :
            \E j \in 1..Len(reports) : reports[j].task_id = scenarios[i].task_id

\* C6: when the verifier raised, run completes and writes a report with a
\* null verification and the fallback score less the penalty.
C6_VerifierFailureReport ==
    (Scored /\ verifierOutcome.kind = "raised") =>
        /\ escaped = ""
        /\ reports # <<>>
        /\ Last(reports).task_id = scenario.metadata.task_id
        /\ Last(reports).verification = None
        /\ Last(reports).metrics.score =
             Max(0, PrePenaltyScore(actions, metrics.duration_seconds, None, scenario)
                    - metrics.error_action_penalty)

\* C7: when the agent module raised, the runner goes on with no actions,
\* runs verification, and the agent's exception does not leave run.
C7_AgentFailureIsolated ==
    (AfterAgent /\ agentExit \in AgentExceptions) =>
        /\ actions = <<>>
        /\ escaped # agentExit
        /\ pc # "verify" => verifyCalls = 1

\* C7 witness: run_agent raised after recording an action, and verification
\* has run
C7_Witness ==
    /\ agentExit \in AgentExceptions
    /\ agentActions # <<>>
    /\ pc = "finish"
    /\ verifyCalls = 1
    /\ actions = <<>>

\* the latency/step fallback as the claim words it: each ratio clamped to
\* [0,1], weighted and summed
ClampedFallback(duration, steps, scoring, max_steps) ==
    LET clamp(x) == IF x < 0 THEN 0 ELSE IF x > 1000 THEN 1000 ELSE x
        latency == IF scoring.max_time_seconds = 0 THEN 1000
                   ELSE clamp(1000 - (duration * 1000) \div scoring.max_time_seconds)
        step == IF max_steps = 0 THEN 1000
                ELSE clamp(1000 - (steps * 1000) \div max_steps)
    IN (latency * Get(scoring.weights, "latency", 0)) \div 1000
       + (step * Get(scoring.weights, "steps", 0)) \div 1000

\* C8: the score before the penalty is the verifier's score when the
\* verifier returned a result, else the clamped, weighted fallback.
C8_ScoreComposition ==
    Scored =>
        /\ ~IsRaised(metrics)
        /\ metrics.score =
             Max(0, (IF verifierOutcome.kind = "returned"
                     THEN verifierOutcome.result.score
                     ELSE ClampedFallback(metrics.duration_seconds, Len(actions),
                                          scenario.scoring, scenario.metadata.max_steps))
                    - metrics.error_action_penalty)

\* C9: every run that reaches scoring stores its report, and the
\* metrics.score stored in every report lies in [0,1].
C9_StoredScoreInUnitRange ==
    Scored =>
        /\ reports # <<>>
        /\ \A j \in 1..Len(reports) :
             /\ reports[j].metrics.score >= 0
             /\ reports[j].metrics.score <= 1000

\* C10: in the stored report the penalty is subtracted once from
\* metrics.score, and the verification's score and task components are the
\* verifier's.
C10_PenaltyNotDoubleCounted ==
    (Scored /\ verifierOutcome.kind = "returned") =>
        /\ reports # <<>>
        /\ Last(reports).metrics.score =
             Max(0, verifierOutcome.result.score - 20 * ErrorCount(actions))
        /\ Last(reports).verification.score = verifierOutcome.result.score
        /\ Last(reports).verification.components = verifierOutcome.result.components

(***************************************************************************)
(* Python floats (IEEE-754 binary64), for the non-negative values the      *)
(* verifiers and the aggregator compute. A value is a whole number of      *)
(* units of 2^-75, written in limbs of 15 bits, least significant first;   *)
(* limb 6 is the first limb of the integer part. Every operation rounds    *)
(* its exact result to 53 significant bits, ties to even, as the hardware  *)
(* does. Values are 0 or between 2^-22 and 2^6.                            *)
(***************************************************************************)
LimbBase == 2^15

BigZero == <<0, 0, 0, 0, 0, 0, 0, 0>>

\* the whole number n (below 2^15) as a value
BigInt(n) == <<0, 0, 0, 0, 0, n, 0, 0>>

\* limb k of t brought below 2^15, its excess carried into limb k + 1
Carry(t, k) ==
    [t EXCEPT ![k] = t[k] % LimbBase, ![k + 1] = t[k + 1] + t[k] \div LimbBase]

\* the carries of t propagated through all the limbs
Carried(t) ==
    Carry(Carry(Carry(Carry(Carry(Carry(Carry(t, 1), 2), 3), 4), 5), 6), 7)

\* a + b, limb by limb with the carry
BigAdd(a, b) ==
    Carried(<<a[1] + b[1], a[2] + b[2], a[3] + b[3], a[4] + b[4],
              a[5] + b[5], a[6] + b[6], a[7] + b[7], a[8] + b[8]>>)

\* a * m for m at most 2^15, limb by limb with the carry
BigMulSmall(a, m) ==
    Carried(<<a[1] * m, a[2] * m, a[3] * m, a[4] * m,
              a[5] * m, a[6] * m, a[7] * m, a[8] * m>>)

\* one step of the long division of a by d: limb k, after the limbs above
\* it left the quotient st.q and the remainder st.r
DivLimb(a, d, k, st) ==
    [q |-> [st.q EXCEPT ![k] = (st.r * LimbBase + a[k]) \div d],
     r |-> (st.r * LimbBase + a[k]) % d]

\* long division of a by d (at most 2^15) from the top limb down: the
\* quotient and the remainder
BigDivSmall(a, d) ==
    DivLimb(a, d, 1, DivLimb(a, d, 2, DivLimb(a, d, 3, DivLimb(a, d, 4,
    DivLimb(a, d, 5, DivLimb(a, d, 6, DivLimb(a, d, 7, DivLimb(a, d, 8,
        [q |-> BigZero, r |-> 0]))))))))

\* the number of bits of a
BitLen(a) ==
    Cardinality({p \in (1..8) \X (1..15) :
                    \/ a[p[1]] >= 2^(p[2] - 1)
                    \/ \E lu \in (p[1] + 1)..8 : a[lu] # 0})

\* the kept bits q, the dropped bits low (half is their top bit alone):
\* rounded to the nearest, a tie to even unless sticky, and shifted back
\* by d1 + d2 bits
RoundKept(q, low, half, d1, d2, sticky) ==
    BigMulSmall(
        BigMulSmall(IF \/ low > half
                       \/ low = half /\ sticky
                       \/ low = half /\ ~sticky /\ q[1] % 2 = 1
                    THEN BigAdd(q, <<1, 0, 0, 0, 0, 0, 0, 0>>) ELSE q,
                    2^d1),
        2^d2)

\* a with its lowest d1 + d2 bits rounded away (each at most 14); s1 is a
\* shifted right by d1 bits
RoundDrop(s1, d1, d2, sticky) ==
    RoundKept(BigDivSmall(s1.q, 2^d2).q, BigDivSmall(s1.q, 2^d2).r * 2^d1 + s1.r,
              2^(d1 + d2 - 1), d1, d2, sticky)

\* a with its lowest drop bits rounded away
RoundAway(a, drop, sticky) ==
    RoundDrop(BigDivSmall(a, 2^Min(drop, 14)), Min(drop, 14), drop - Min(drop, 14), sticky)

\* a + (a fraction of one unit, when sticky) rounded to 53 significant bits,
\* ties to even
Round53(a, sticky) ==
    IF BitLen(a) <= 53 THEN a ELSE RoundAway(a, BitLen(a) - 53, sticky)

\* x + y (adding 0.0 is exact)
FloatAdd(x, y) ==
    IF x = BigZero THEN y
    ELSE IF y = BigZero THEN x
    ELSE Round53(BigAdd(x, y), FALSE)

\* x * m for an int m
FloatMulInt(x, m) ==
    IF x = BigZero \/ m = 0 THEN BigZero
    ELSE Round53(BigMulSmall(x, m), FALSE)

\* x / n for an int n (true division rounds the exact quotient)
FloatDivInt(x, n) ==
    IF x = BigZero THEN BigZero
    ELSE Round53(BigDivSmall(x, n).q, BigDivSmall(x, n).r # 0)

\* the float of the decimal th / 1000 (a literal, or a number read from JSON)
FloatLit(th) == FloatDivInt(BigInt(th), 1000)

\* x <= y
FloatLe(x, y) ==
    \/ x = y
    \/ \E lc \in 1..8 : x[lc] < y[lc] /\ \A lh \in (lc + 1)..8 : x[lh] = y[lh]

\* min(x, y)
FloatMin(x, y) == IF FloatLe(y, x) THEN y ELSE x

\* m, in units of 2^-75, rounded to a whole number: to the nearest, a tie
\* to even
RoundWhole(m) ==
    (m[6] + m[7] * LimbBase)
    + (IF \/ m[5] > 2^14
          \/ m[5] = 2^14 /\ (\E lf \in 1..4 : m[lf] # 0)
          \/ m[5] = 2^14 /\ (\A lf \in 1..4 : m[lf] = 0)
                         /\ (m[6] + m[7] * LimbBase) % 2 = 1
       THEN 1 ELSE 0)

\* round(x, digits) as the whole number of units of 10^-digits: the exact
\* binary value of x rounded to the nearest, a tie to even
RoundDigits(x, digits) ==
    IF x = BigZero THEN 0 ELSE RoundWhole(BigMulSmall(x, 10^digits))

(***************************************************************************)
(* verifier.py: ScoringWeights                                             *)
(***************************************************************************)
\* the most components of a ScoringWeights set
MaxComponents == 3

\* weights a ScoringComponent accepts (Field ge=0.0, le=1.0), in thousandths
WeightChoices == {0, 10, 50, 400, 490, 500, 560, 1000}

RECURSIVE FloatSum(_)
\* sum(...) over the floats q, left to right from the int 0
FloatSum(q) ==
    IF q = <<>> THEN BigZero
    ELSE FloatAdd(FloatSum(SubSeq(q, 1, Len(q) - 1)), q[Len(q)])

\* the floats of the thousandths q, in order
Floats(q) == [i \in 1..Len(q) |-> FloatLit(q[i])]

\* ScoringWeights(components=...): the field validator weights_sum_to_one on
\* the weights of the components, in dict order
weights_sum_to_one(weights) ==
    IF ~(/\ FloatLe(FloatLit(990), FloatSum(Floats(weights)))
         /\ FloatLe(FloatSum(Floats(weights)), FloatLit(1010)))
    THEN Raised("ValueError")
    ELSE [tag |-> "ScoringWeights", components |-> weights]

\* VerificationResult(...): pydantic refuses a score or a component value or
\* max outside 0.0-1.0; scores and values are in thousandths
VerificationResult(score, components, passed, errors) ==
    IF \/ score < 0 \/ score > 1000
       \/ \E c \in DOMAIN components :
            \/ components[c].value < 0 \/ components[c].value > 1000
            \/ components[c].max < 0 \/ components[c].max > 1000
    THEN Raised("ValidationError")
    ELSE [score |-> score, components |-> components, passed |-> passed,
          errors |-> errors,
          score_details |-> [timing |-> None, components |-> EmptyDict]]

(***************************************************************************)
(* tools.py: compute_best_practice_tag_score                               *)
(***************************************************************************)
BEST_PRACTICE_TAG_KEYS ==
    {"environment", "project", "service", "team", "owner", "contact", "cost_center",
     "billing", "application", "stack", "department", "managed_by"}

\* the tag key sets a resource is observed with (keys stripped and lowered)
TagSets == {{}, {"name"}, {"owner"}, {"owner", "project", "name"},
            {"team", "stack", "billing"}}

\* compute_best_practice_tag_score(tags, cap) with split = 2.0: cap is a
\* float, tags the normalized keys
compute_best_practice_tag_score(tags, cap) ==
    IF FloatLe(cap, BigZero) THEN BigZero
    ELSE LET per_tag == FloatDivInt(cap, 2)
             matches == Cardinality(BEST_PRACTICE_TAG_KEYS \cap tags)
         IN FloatMin(FloatMulInt(per_tag, matches), cap)

(***************************************************************************)
(* tasks/aws/s3/simple_bucket/verify.py: S3BucketVerifier                  *)
(***************************************************************************)
\* the most buckets list_buckets reports
MaxBuckets == 3

\* scoring_weights, in thousandths
S3BucketWeights ==
    [base |-> 650, unique_name_or_runid |-> 100, block_public_access |-> 100,
     default_encryption |-> 100, best_practice_tags |-> 50]

\* what the S3 calls report of one bucket: head_bucket succeeds or not, the
\* region ("" when get_bucket_location fails), the tag keys, and the checks
SimpleBuckets ==
    { [head |-> FALSE, region |-> "us-east-1", tags |-> {}, unique_suffix |-> FALSE,
       block_public_access_enabled |-> FALSE, default_encryption_enabled |-> FALSE],
      [head |-> TRUE, region |-> "us-east-1", tags |-> {}, unique_suffix |-> FALSE,
       block_public_access_enabled |-> FALSE, default_encryption_enabled |-> FALSE],
      [head |-> TRUE, region |-> "us-east-1", tags |-> {"owner", "project", "name"},
       unique_suffix |-> TRUE,
       block_public_access_enabled |-> TRUE, default_encryption_enabled |-> TRUE],
      [head |-> TRUE, region |-> "us-east-1", tags |-> {"owner"}, unique_suffix |-> TRUE,
       block_public_access_enabled |-> FALSE, default_encryption_enabled |-> FALSE],
      [head |-> TRUE, region |-> "eu-west-1", tags |-> {}, unique_suffix |-> FALSE,
       block_public_access_enabled |-> TRUE, default_encryption_enabled |-> TRUE],
      [head |-> TRUE, region |-> "eu-west-1", tags |-> {"team", "stack", "billing"},
       unique_suffix |-> FALSE,
       block_public_access_enabled |-> FALSE, default_encryption_enabled |-> FALSE],
      [head |-> TRUE, region |-> "", tags |-> {"owner"}, unique_suffix |-> FALSE,
       block_public_access_enabled |-> TRUE, default_encryption_enabled |-> FALSE] }

\* _collect_bucket_attributes_for_bucket: the defaults when head_bucket fails
S3Bucket_collect_bucket_attributes_for_bucket(bucket) ==
    IF ~bucket.head
    THEN [bucket_exists |-> FALSE, region |-> "", tag_score |-> BigZero,
          unique_suffix |-> FALSE, block_public_access_enabled |-> FALSE,
          default_encryption_enabled |-> FALSE]
    ELSE [bucket_exists |-> TRUE, region |-> bucket.region,
          tag_score |-> compute_best_practice_tag_score(
                            bucket.tags, FloatLit(S3BucketWeights.best_practice_tags)),
          unique_suffix |-> bucket.unique_suffix,
          block_public_access_enabled |-> bucket.block_public_access_enabled,
          default_encryption_enabled |-> bucket.default_encryption_enabled]

\* the five component floats of one bucket, lines 246-250
S3BucketComponents(security) ==
    [base |-> IF security.region = "us-east-1" THEN FloatLit(S3BucketWeights.base)
              ELSE BigZero,
     unique_name_or_runid |->
        IF security.unique_suffix THEN FloatLit(S3BucketWeights.unique_name_or_runid)
        ELSE BigZero,
     block_public_access |->
        IF security.block_public_access_enabled
        THEN FloatLit(S3BucketWeights.block_public_access) ELSE BigZero,
     default_encryption |->
        IF security.default_encryption_enabled
        THEN FloatLit(S3BucketWeights.default_encryption) ELSE BigZero,
     best_practice_tags |->
        FloatMin(security.tag_score, FloatLit(S3BucketWeights.best_practice_tags))]

\* bucket_score, line 252
S3BucketScore(c) ==
    FloatMin(BigInt(1),
             FloatSum(<<c.base, c.unique_name_or_runid, c.block_public_access,
                        c.default_encryption, c.best_practice_tags>>))

\* _calculate_score on the attributes of the listed buckets, in dict order:
\* the score as a float, the components in thousandths, the errors
S3Bucket_calculate_score(attrs) ==
    IF attrs = <<>>
    THEN [score |-> BigZero, components |-> EmptyDict,
          errors |-> <<"No buckets exist in the environment.">>]
    ELSE IF \A i \in 1..Len(attrs) : attrs[i].region # "us-east-1"
    THEN [score |-> BigZero, components |-> EmptyDict,
          errors |-> <<"Buckets exist but none are located in us-east-1.">>]
    ELSE LET bucket_count == Len(attrs)
             bucket_scores == [i \in 1..bucket_count |-> S3BucketScore(S3BucketComponents(attrs[i]))]
             component_totals ==
                [name \in DOMAIN S3BucketWeights |->
                    FloatSum([i \in 1..bucket_count |-> S3BucketComponents(attrs[i])[name]])]
         IN [score |-> FloatDivInt(FloatSum(bucket_scores), bucket_count),
             components |->
                [name \in DOMAIN S3BucketWeights |->
                    [value |-> RoundDigits(FloatDivInt(component_totals[name], bucket_count), 3),
                     max |-> S3BucketWeights[name]]],
             errors |-> <<>>]

\* S3BucketVerifier.verify on the buckets list_buckets reports
S3BucketVerifier_result(calc) ==
    VerificationResult(RoundDigits(calc.score, 3), calc.components,
                       Len(calc.errors) = 0, calc.errors)

\* S3BucketVerifier.verify: the attributes of every listed bucket, then the score
S3BucketVerifier_verify(buckets) ==
    S3BucketVerifier_result(
        S3Bucket_calculate_score(
            [i \in 1..Len(buckets) |->
                S3Bucket_collect_bucket_attributes_for_bucket(buckets[i])]))

(***************************************************************************)
(* tasks/aws/s3/backups_bucket/verify.py: S3BackupsBucketVerifier          *)
(***************************************************************************)
\* scoring_weights, in thousandths
S3BackupsWeights ==
    [exists |-> 500, versioning |-> 200, lifecycle_glacier |-> 200, encryption |-> 100]

\* the names list_buckets reports, in its order
BucketNames == <<"backup-a", "backup-b", "backup-c", "backup-d", "backup-e">>

\* what the S3 calls report of one bucket: head_bucket succeeds or not,
\* versioning, a Glacier transition, a delete/expiration action, encryption
BackupBuckets ==
    { [head |-> FALSE, versioning |-> TRUE, has_glacier |-> TRUE,
       delete_actions |-> FALSE, encryption |-> TRUE],
      [head |-> TRUE, versioning |-> FALSE, has_glacier |-> FALSE,
       delete_actions |-> FALSE, encryption |-> FALSE],
      [head |-> TRUE, versioning |-> TRUE, has_glacier |-> FALSE,
       delete_actions |-> FALSE, encryption |-> FALSE],
      [head |-> TRUE, versioning |-> FALSE, has_glacier |-> TRUE,
       delete_actions |-> FALSE, encryption |-> FALSE],
      [head |-> TRUE, versioning |-> TRUE, has_glacier |-> TRUE,
       delete_actions |-> FALSE, encryption |-> TRUE],
      [head |-> TRUE, versioning |-> TRUE, has_glacier |-> TRUE,
       delete_actions |-> TRUE, encryption |-> TRUE],
      [head |-> TRUE, versioning |-> FALSE, has_glacier |-> TRUE,
       delete_actions |-> TRUE, encryption |-> FALSE],
      [head |-> TRUE, versioning |-> FALSE, has_glacier |-> FALSE,
       delete_actions |-> TRUE, encryption |-> TRUE] }

\* the attributes _collect_bucket_attributes stores for one reachable bucket
S3BackupsAttributes(name, bucket) ==
    [name |-> name, versioning |-> bucket.versioning, has_glacier |-> bucket.has_glacier,
     delete_actions |-> bucket.delete_actions, encryption |-> bucket.encryption,
     score |->
        FloatSum(Floats(<<S3BackupsWeights.exists,
                          IF bucket.versioning THEN S3BackupsWeights.versioning ELSE 0,
                          IF bucket.has_glacier THEN S3BackupsWeights.lifecycle_glacier ELSE 0,
                          IF bucket.encryption THEN S3BackupsWeights.encryption ELSE 0>>))]

RECURSIVE S3Backups_collect_bucket_attributes(_, _)
\* _collect_bucket_attributes: the attributes of the buckets from position
\* at on, in dict order; a bucket whose head_bucket fails is skipped
S3Backups_collect_bucket_attributes(buckets, at) ==
    IF at > Len(buckets) THEN <<>>
    ELSE IF ~buckets[at].head THEN S3Backups_collect_bucket_attributes(buckets, at + 1)
    ELSE <<S3BackupsAttributes(BucketNames[at], buckets[at])>>
         \o S3Backups_collect_bucket_attributes(buckets, at + 1)

\* max(candidates, key=score): the first candidate no other one beats
FirstMax(candidates) ==
    candidates[CHOOSE k \in 1..Len(candidates) :
        /\ \A m \in 1..Len(candidates) : FloatLe(candidates[m].score, candidates[k].score)
        /\ \A m \in 1..(k - 1) : ~FloatLe(candidates[k].score, candidates[m].score)]

\* a choice that takes the highest score whatever the lifecycle rules delete
_choose_best_bucket_unsafe(attributes) == FirstMax(attributes)

\* _choose_best_bucket: the highest score among the buckets without delete
\* actions, among all of them when there is none
_choose_best_bucket(attributes) ==
    LET safe == SelectSeq(attributes, LAMBDA info : ~info.delete_actions)
        candidates == IF safe # <<>> THEN safe ELSE attributes
    IN FirstMax(candidates)

\* which components the chosen bucket earns, lines 224-233
S3Backups_earned(info) ==
    [exists |-> TRUE, versioning |-> info.versioning,
     lifecycle_glacier |-> info.has_glacier, encryption |-> info.encryption]

\* _compute_components of the chosen bucket, in thousandths
S3Backups_compute_components(info) ==
    [name \in DOMAIN S3BackupsWeights |->
        [value |-> RoundDigits(IF S3Backups_earned(info)[name]
                               THEN FloatLit(S3BackupsWeights[name]) ELSE BigZero, 3),
         max |-> S3BackupsWeights[name]]]

\* the error verify reports for a chosen bucket with delete actions
DeleteActionsError(name) ==
    "Bucket " \o name \o " has lifecycle delete/expiration actions; backups should not delete data."

\* the errors of verify for the chosen bucket, lines 80-81
S3Backups_errors(best) ==
    IF best.delete_actions THEN <<DeleteActionsError(best.name)>> ELSE <<>>

\* the result of verify, lines 84-91: the score is the sum of the values
S3Backups_result(components, errors) ==
    VerificationResult(
        RoundDigits(FloatSum(Floats(<<components.exists.value, components.versioning.value,
                                      components.lifecycle_glacier.value,
                                      components.encryption.value>>)), 3),
        components, Len(errors) = 0, errors)

\* verify from the collected attributes on, lines 69-91
S3Backups_verify_map(bucket_map) ==
    IF bucket_map = <<>>
    THEN VerificationResult(0, EmptyDict, FALSE, <<"No buckets found for backups.">>)
    ELSE S3Backups_result(S3Backups_compute_components(_choose_best_bucket(bucket_map)),
                          S3Backups_errors(_choose_best_bucket(bucket_map)))

\* S3BackupsBucketVerifier.verify on the buckets list_buckets reports
S3BackupsBucketVerifier_verify(buckets) ==
    S3Backups_verify_map(S3Backups_collect_bucket_attributes(buckets, 1))

(***************************************************************************)
(* tasks/aws/sns/create_topic/verify.py: SNSTopicVerifier                  *)
(***************************************************************************)
\* scoring_weights, in thousandths
SNSTopicWeights == [exists |-> 900, tags |-> 100]

\* what the SNS calls report: list_topics succeeds or not, the topic is in
\* the list or not, get_topic_attributes and list_tags_for_resource succeed
\* or not, and the tag keys of the topic
TopicObservations ==
    [list_ok : BOOLEAN, found : BOOLEAN, attributes_ok : BOOLEAN,
     tags_ok : BOOLEAN, tags : TagSets]

\* the message of a ClientError other than the ones a verifier names
ClientErrorMessage == "An error occurred when calling the operation"

\* _check_topic
SNSTopicVerifier_check_topic(seen) ==
    IF ~seen.list_ok
    THEN [exists |-> FALSE, tag_score |-> BigZero, errors |-> <<ClientErrorMessage>>]
    ELSE IF ~seen.found
    THEN [exists |-> FALSE, tag_score |-> BigZero, errors |-> <<"topic not found">>]
    ELSE IF ~seen.attributes_ok
    THEN [exists |-> TRUE, tag_score |-> BigZero, errors |-> <<ClientErrorMessage>>]
    ELSE [exists |-> TRUE,
          tag_score |->
            compute_best_practice_tag_score(IF seen.tags_ok THEN seen.tags ELSE {},
                                            FloatLit(SNSTopicWeights.tags)),
          errors |-> <<>>]

\* a scorer that awards the whole point for the topic existing
SNSTopicVerifier_compute_components_whole_point(checks) ==
    [exists |->
        [value |-> RoundDigits(IF checks.exists THEN BigInt(1) ELSE BigZero, 3),
         max |-> SNSTopicWeights.exists],
     tags |->
        [value |-> RoundDigits(FloatMin(checks.tag_score, FloatLit(SNSTopicWeights.tags)), 3),
         max |-> SNSTopicWeights.tags]]

\* _compute_components
SNSTopicVerifier_compute_components(checks) ==
    [exists |->
        [value |-> RoundDigits(IF checks.exists THEN FloatLit(SNSTopicWeights.exists)
                               ELSE BigZero, 3),
         max |-> SNSTopicWeights.exists],
     tags |->
        [value |-> RoundDigits(FloatMin(checks.tag_score, FloatLit(SNSTopicWeights.tags)), 3),
         max |-> SNSTopicWeights.tags]]

\* a result that passes on its score instead of on its errors
SNSTopicVerifier_result_by_score(components, errors) ==
    [VerificationResult(
        RoundDigits(FloatSum(Floats(<<components.exists.value,
                                      components.tags.value>>)), 3),
        components,
        RoundDigits(FloatSum(Floats(<<components.exists.value,
                                      components.tags.value>>)), 3) >= 900,
        errors)
     EXCEPT !.score_details.components = components]

\* the result verify builds and completes, lines 53-67
SNSTopicVerifier_result(components, errors) ==
    [VerificationResult(
        RoundDigits(FloatSum(Floats(<<components.exists.value,
                                      components.tags.value>>)), 3),
        components, Len(errors) = 0, errors)
     EXCEPT !.score_details.components = components]

\* SNSTopicVerifier.verify
SNSTopicVerifier_verify(seen) ==
    SNSTopicVerifier_result(
        SNSTopicVerifier_compute_components(SNSTopicVerifier_check_topic(seen)),
        SNSTopicVerifier_check_topic(seen).errors)

(***************************************************************************)
(* tasks/aws/sqs/create-queue/verify.py: SQSQueueVerifier                  *)
(***************************************************************************)
\* scoring_weights, in thousandths
SQSQueueWeights == [exists |-> 800, long_polling |-> 100, tags |-> 100]

\* what the SQS calls report: get_queue_url finds the queue, reports it
\* missing or fails otherwise; get_queue_attributes and list_queue_tags
\* succeed or not; ReceiveMessageWaitTimeSeconds; the tag keys
QueueObservations ==
    [queue_url : {"ok", "missing", "failed"}, attributes_ok : BOOLEAN,
     wait_time : {0, 20}, tags_ok : BOOLEAN, tags : TagSets]

\* _check_queue
SQSQueueVerifier_check_queue(seen) ==
    IF seen.queue_url = "missing"
    THEN [exists |-> FALSE, long_polling |-> FALSE, tag_score |-> BigZero,
          errors |-> <<"queue not found">>]
    ELSE IF seen.queue_url = "failed"
    THEN [exists |-> FALSE, long_polling |-> FALSE, tag_score |-> BigZero,
          errors |-> <<ClientErrorMessage>>]
    ELSE IF ~seen.attributes_ok
    THEN [exists |-> TRUE, long_polling |-> FALSE, tag_score |-> BigZero,
          errors |-> <<ClientErrorMessage>>]
    ELSE IF ~seen.tags_ok
    THEN [exists |-> TRUE, long_polling |-> seen.wait_time > 0, tag_score |-> BigZero,
          errors |-> <<ClientErrorMessage>>]
    ELSE [exists |-> TRUE, long_polling |-> seen.wait_time > 0,
          tag_score |-> compute_best_practice_tag_score(seen.tags, FloatLit(SQSQueueWeights.tags)),
          errors |-> <<>>]

\* _compute_components
SQSQueueVerifier_compute_components(checks) ==
    [name \in DOMAIN SQSQueueWeights |->
        [value |-> RoundDigits(IF name = "tags"
                               THEN FloatMin(checks.tag_score, FloatLit(SQSQueueWeights[name]))
                               ELSE IF checks[name] THEN FloatLit(SQSQueueWeights[name])
                               ELSE BigZero, 3),
         max |-> SQSQueueWeights[name]]]

\* the result verify builds, lines 55-66: the score is the sum of the values
SQSQueueVerifier_result(components, errors) ==
    VerificationResult(
        RoundDigits(FloatSum(Floats(<<components.exists.value, components.long_polling.value,
                                      components.tags.value>>)), 3),
        components, Len(errors) = 0, errors)

\* SQSQueueVerifier.verify
SQSQueueVerifier_verify(seen) ==
    SQSQueueVerifier_result(
        SQSQueueVerifier_compute_components(SQSQueueVerifier_check_queue(seen)),
        SQSQueueVerifier_check_queue(seen).errors)

(***************************************************************************)
(* tasks/aws/s3/application_logs/verify.py: S3ApplicationLogsVerifier      *)
(***************************************************************************)
EXPECTED_BUCKET_NAME == "application-logs-6fa7fc53-2c28-4d8f-9603-35271d573d3a"

EXPECTED_REGION == "us-east-1"

RETENTION_MIN_DAYS == 170

RETENTION_MAX_DAYS == 190

\* scoring_weights, in thousandths
ApplicationLogsWeights ==
    [exists_and_region |-> 500, retention_policy |-> 300, block_public_access |-> 100,
     default_encryption |-> 50, best_practice_tags |-> 50]

\* what the S3 calls report of the expected bucket: head_bucket finds it,
\* reports it missing or fails otherwise; its region ("" when the location
\* call fails); the shortest expiration of the enabled lifecycle rules in
\* days (0 when there is none); public access block; encryption; tag keys
LogBucketObservations ==
    [head : {"ok", "missing", "failed"}, region : {"us-east-1", "eu-west-1", ""},
     retention_days : {0, 169, 170, 190, 191}, public_block_enabled : BOOLEAN,
     default_encryption_enabled : BOOLEAN, tags : TagSets]

\* _collect_bucket_info
ApplicationLogs_collect_bucket_info(seen) ==
    IF seen.head # "ok"
    THEN [exists |-> FALSE, region |-> "", region_matches |-> FALSE, tag_score |-> BigZero,
          public_block_enabled |-> FALSE, default_encryption_enabled |-> FALSE,
          retention_days |-> 0, retention_ok |-> FALSE,
          errors |-> IF seen.head = "missing"
                     THEN <<"Bucket " \o EXPECTED_BUCKET_NAME \o " not found.">>
                     ELSE <<ClientErrorMessage>>]
    ELSE [exists |-> TRUE, region |-> seen.region,
          region_matches |-> seen.region = EXPECTED_REGION,
          tag_score |-> compute_best_practice_tag_score(
                            seen.tags, FloatLit(ApplicationLogsWeights.best_practice_tags)),
          public_block_enabled |-> seen.public_block_enabled,
          default_encryption_enabled |-> seen.default_encryption_enabled,
          retention_days |-> seen.retention_days,
          retention_ok |-> /\ seen.retention_days # 0
                           /\ RETENTION_MIN_DAYS <= seen.retention_days
                           /\ seen.retention_days <= RETENTION_MAX_DAYS,
          errors |-> <<>>]

\* _collect_errors
ApplicationLogs_collect_errors(info) ==
    IF ~info.exists
    THEN IF info.errors # <<>> THEN info.errors
         ELSE <<"Bucket " \o EXPECTED_BUCKET_NAME \o " not found.">>
    ELSE info.errors
         \o (IF ~info.region_matches
             THEN <<"Bucket must be in " \o EXPECTED_REGION \o " (found "
                    \o (IF info.region = "" THEN "None" ELSE info.region) \o ").">>
             ELSE <<>>)
         \o (IF info.retention_ok THEN <<>>
             ELSE IF info.retention_days = 0
             THEN <<"Lifecycle policy to delete objects after ~6 months is missing.">>
             ELSE <<"Lifecycle expiration set to " \o ToString(info.retention_days)
                    \o " days; expected ~180.">>)

\* what each weighted component asks of the info, lines 264-271
ApplicationLogs_earned(info) ==
    [exists_and_region |-> info.exists /\ info.region_matches,
     retention_policy |-> info.retention_ok,
     block_public_access |-> info.public_block_enabled,
     default_encryption |-> info.default_encryption_enabled,
     best_practice_tags |-> TRUE]

\* _compute_components
ApplicationLogs_compute_components(info) ==
    [name \in DOMAIN ApplicationLogsWeights |->
        [value |-> RoundDigits(IF name = "best_practice_tags"
                               THEN FloatMin(info.tag_score,
                                             FloatLit(ApplicationLogsWeights[name]))
                               ELSE IF ApplicationLogs_earned(info)[name]
                               THEN FloatLit(ApplicationLogsWeights[name])
                               ELSE BigZero, 3),
         max |-> ApplicationLogsWeights[name]]]

\* the result verify builds, lines 91-98: the score is the sum of the values
ApplicationLogs_result(components, errors) ==
    VerificationResult(
        RoundDigits(FloatSum(Floats(<<components.exists_and_region.value,
                                      components.retention_policy.value,
                                      components.block_public_access.value,
                                      components.default_encryption.value,
                                      components.best_practice_tags.value>>)), 3),
        components, Len(errors) = 0, errors)

\* S3ApplicationLogsVerifier.verify
S3ApplicationLogsVerifier_verify(seen) ==
    ApplicationLogs_result(
        ApplicationLogs_compute_components(ApplicationLogs_collect_bucket_info(seen)),
        ApplicationLogs_collect_errors(ApplicationLogs_collect_bucket_info(seen)))

(***************************************************************************)
(* tasks/aws/s3/set_bucket_private/verify.py: S3SetBucketPrivateVerifier   *)
(***************************************************************************)
BUCKET_NAME == "application-storage-873dafa5-ccef-4ab6-8b4b-454f34041350"

\* scoring_weights, in thousandths
SetBucketPrivateWeights ==
    [block_public_access |-> 400, policy_not_public |-> 350, no_public_acl |-> 250]

\* what the S3 calls report of the bucket: head_bucket succeeds or not, the
\* public access block is fully on, the ACL grants public access, the policy
\* status is private, public or cannot be fetched, and the policy document
\* allows a public principal
PrivateBucketObservations ==
    [exists : BOOLEAN, pab_all : BOOLEAN, acl_public : BOOLEAN,
     policy_status : {"private", "public", "unsupported"}, policy_public_allow : BOOLEAN]

\* _collect_info
SetBucketPrivate_collect_info(seen) ==
    [exists |-> seen.exists,
     acl_public |-> seen.exists /\ seen.acl_public,
     policy_status_public |-> seen.exists /\ seen.policy_status = "public",
     policy_status_supported |-> ~(seen.exists /\ seen.policy_status = "unsupported"),
     policy_public_fallback |->
        seen.exists /\ seen.policy_status = "unsupported" /\ seen.policy_public_allow,
     pab_all |-> seen.exists /\ seen.pab_all]

\* _collect_errors
SetBucketPrivate_collect_errors(info) ==
    IF ~info.exists THEN <<"Bucket " \o BUCKET_NAME \o " not found.">>
    ELSE (IF ~info.pab_all THEN <<"PublicAccessBlock is not fully enabled.">> ELSE <<>>)
         \o (IF info.acl_public THEN <<"Bucket ACL grants public access.">> ELSE <<>>)
         \o (IF info.policy_status_public \/ info.policy_public_fallback
             THEN <<"Bucket policy makes the bucket public.">> ELSE <<>>)

\* components that do not ask for the bucket to exist
SetBucketPrivate_earned_unguarded(info) ==
    [block_public_access |-> info.pab_all,
     policy_not_public |-> ~info.policy_status_public /\ ~info.policy_public_fallback,
     no_public_acl |-> ~info.acl_public]

\* what each component asks of the info, lines 223-229
SetBucketPrivate_earned(info) ==
    [block_public_access |-> info.pab_all,
     policy_not_public |->
        info.exists /\ ~info.policy_status_public /\ ~info.policy_public_fallback,
     no_public_acl |-> info.exists /\ ~info.acl_public]

\* _compute_components
SetBucketPrivate_compute_components(info) ==
    [name \in DOMAIN SetBucketPrivateWeights |->
        [value |-> RoundDigits(IF SetBucketPrivate_earned(info)[name]
                               THEN FloatLit(SetBucketPrivateWeights[name])
                               ELSE BigZero, 3),
         max |-> SetBucketPrivateWeights[name]]]

\* the result verify builds, lines 67-74: the score is the sum of the values
SetBucketPrivate_result(components, errors) ==
    VerificationResult(
        RoundDigits(FloatSum(Floats(<<components.block_public_access.value,
                                      components.policy_not_public.value,
                                      components.no_public_acl.value>>)), 3),
        components, Len(errors) = 0, errors)

\* S3SetBucketPrivateVerifier.verify
S3SetBucketPrivateVerifier_verify(seen) ==
    SetBucketPrivate_result(
        SetBucketPrivate_compute_components(SetBucketPrivate_collect_info(seen)),
        SetBucketPrivate_collect_errors(SetBucketPrivate_collect_info(seen)))

(***************************************************************************)
(* tools.py: aws_cli_tool and _build_aws_command                           *)
(*                                                                         *)
(* A command string is the sequence of its lexemes: a blank, a double      *)
(* quote, or a run of other characters. A token is the sequence of the     *)
(* lexemes shlex joined into it.                                           *)
(***************************************************************************)
\* the most lexemes in a command string
MaxLexemes == 5

Lexemes == {" ", "\"", "aws", "AWS", "--endpoint-url", "=", "http://evil:4566"}

\* not command.strip(): nothing but blanks
IsBlank(command) == \A i \in 1..Len(command) : command[i] = " "

RECURSIVE ShlexSplit(_, _, _, _, _, _)
\* shlex.split(command) from lexeme i on: cur is the token under way (if
\* inToken), inQuote says a double quote is open, parts are the tokens so
\* far. A quote left open raises ValueError (No closing quotation).
ShlexSplit(command, i, cur, inToken, inQuote, parts) ==
    IF i > Len(command)
    THEN IF inQuote THEN Raised("ValueError")
         ELSE [parts |-> IF inToken THEN Append(parts, cur) ELSE parts]
    ELSE IF inQuote
    THEN IF command[i] = "\""
         THEN ShlexSplit(command, i + 1, cur, TRUE, FALSE, parts)
         ELSE ShlexSplit(command, i + 1, Append(cur, command[i]), TRUE, TRUE, parts)
    ELSE IF command[i] = " "
    THEN ShlexSplit(command, i + 1, <<>>, FALSE, FALSE,
                    IF inToken THEN Append(parts, cur) ELSE parts)
    ELSE IF command[i] = "\""
    THEN ShlexSplit(command, i + 1, cur, TRUE, TRUE, parts)
    ELSE ShlexSplit(command, i + 1, Append(cur, command[i]), TRUE, FALSE, parts)

\* part == "--endpoint-url"
IsEndpointFlag(part) == part = <<"--endpoint-url">>

\* part.startswith("--endpoint-url=")
StartsWithEndpointFlag(part) ==
    Len(part) >= 2 /\ part[1] = "--endpoint-url" /\ part[2] = "="

\* part.lower() == "aws"
IsAws(part) == part = <<"aws">> \/ part = <<"AWS">>

RECURSIVE CleanedKeepingJoined(_, _, _, _)
\* a loop that drops the flag and its value but keeps --endpoint-url=...
CleanedKeepingJoined(parts, i, skip_next, cleaned_parts) ==
    IF i > Len(parts) THEN cleaned_parts
    ELSE IF skip_next THEN CleanedKeepingJoined(parts, i + 1, FALSE, cleaned_parts)
    ELSE IF IsEndpointFlag(parts[i]) THEN CleanedKeepingJoined(parts, i + 1, TRUE, cleaned_parts)
    ELSE CleanedKeepingJoined(parts, i + 1, FALSE, Append(cleaned_parts, parts[i]))

RECURSIVE Cleaned(_, _, _, _)
\* _build_aws_command, lines 93-104: the loop over parts
Cleaned(parts, i, skip_next, cleaned_parts) ==
    IF i > Len(parts) THEN cleaned_parts
    ELSE IF skip_next THEN Cleaned(parts, i + 1, FALSE, cleaned_parts)
    ELSE IF IsEndpointFlag(parts[i]) THEN Cleaned(parts, i + 1, TRUE, cleaned_parts)
    ELSE IF StartsWithEndpointFlag(parts[i]) THEN Cleaned(parts, i + 1, FALSE, cleaned_parts)
    ELSE Cleaned(parts, i + 1, FALSE, Append(cleaned_parts, parts[i]))

\* _build_aws_command, lines 106-109
WithEndpoint(cleaned_parts, endpoint) ==
    <<<<"aws">>, <<"--endpoint-url">>, <<endpoint>>>>
    \o (IF cleaned_parts # <<>> /\ IsAws(cleaned_parts[1])
        THEN Tail(cleaned_parts) ELSE cleaned_parts)

\* _build_aws_command, lines 92-109, on what shlex.split gave
BuiltFrom(split, endpoint) ==
    IF IsRaised(split) THEN split
    ELSE [aws_command |-> WithEndpoint(Cleaned(split.parts, 1, FALSE, <<>>), endpoint)]

\* _build_aws_command: the list (as aws_command), or the exception
_build_aws_command(command, endpoint) ==
    IF IsBlank(command) THEN Raised("ValueError")
    ELSE BuiltFrom(ShlexSplit(command, 1, <<>>, FALSE, FALSE, <<>>), endpoint)

\* aws_cli_tool, lines 125-129: the command it goes on to run
aws_cli_tool(args, e) ==
    IF Get(e, "ENDPOINT_URL", "") = "" THEN Raised("ValueError")
    ELSE _build_aws_command(args.command, e.ENDPOINT_URL)

(***************************************************************************)
(* One call of one function on its own: the arguments are drawn at the     *)
(* start, the action of the function applies it once.                      *)
(***************************************************************************)
CallInputs ==
    [fn : {"_record_action"}, turn : {1}, tool : {"aws_cli", "custom_tool"}, result : ToolResults]
    \cup [fn : {"ScoringWeights"}, weights : SeqsUpTo(WeightChoices, MaxComponents)]
    \cup [fn : {"S3BucketVerifier"}, buckets : SeqsUpTo(SimpleBuckets, MaxBuckets)]
    \cup [fn : {"S3BackupsBucketVerifier"}, buckets : SeqsUpTo(BackupBuckets, MaxBuckets)]
    \cup [fn : {"SNSTopicVerifier"}, seen : TopicObservations]
    \cup [fn : {"SQSQueueVerifier"}, seen : QueueObservations]
    \cup [fn : {"S3ApplicationLogsVerifier"}, seen : LogBucketObservations]
    \cup [fn : {"S3SetBucketPrivateVerifier"}, seen : PrivateBucketObservations]
    \cup [fn : {"aws_cli_tool"}, args : [command : SeqsUpTo(Lexemes, MaxLexemes)],
          env : {[ENDPOINT_URL |-> Endpoint]}]
    \cup [fn : {"aws_cli_tool"}, args : {[command |-> <<"aws">>]}, env : {EmptyDict}]

\* no suite is running
SuiteIdle ==
    /\ scenarios = <<>>
    /\ agent = None
    /\ osEnviron = EmptyDict
    /\ idx = 0
    /\ pc = "idle"
    /\ scenario = None
    /\ env = EmptyDict
    /\ turn = 0
    /\ lastReply = NoReply
    /\ agentActions = <<>>
    /\ agentExit = ""
    /\ actions = <<>>
    /\ verifyCalls = 0
    /\ verifierOutcome = NoOutcome
    /\ verification = None
    /\ metrics = None
    /\ reports = <<>>
    /\ escaped = ""

CallInit ==
    /\ SuiteIdle
    /\ given \in CallInputs
    /\ returned = None
    /\ agg = NoAggregation
    /\ registry = <<>>
    /\ ServiceIdle

RecordActionCall ==
    /\ given.fn = "_record_action" /\ returned = None
    /\ returned' = _record_action(given.turn, given.tool, given.result)
    /\ UNCHANGED <<given, agg, suiteVars, registry, serviceVars>>

ScoringWeightsCall ==
    /\ given.fn = "ScoringWeights" /\ returned = None
    /\ returned' = weights_sum_to_one(given.weights)
    /\ UNCHANGED <<given, agg, suiteVars, registry, serviceVars>>

S3BucketVerifierCall ==
    /\ given.fn = "S3BucketVerifier" /\ returned = None
    /\ returned' = S3BucketVerifier_verify(given.buckets)
    /\ UNCHANGED <<given, agg, suiteVars, registry, serviceVars>>

S3BackupsBucketVerifierCall ==
    /\ given.fn = "S3BackupsBucketVerifier" /\ returned = None
    /\ returned' = S3BackupsBucketVerifier_verify(given.buckets)
    /\ UNCHANGED <<given, agg, suiteVars, registry, serviceVars>>

SNSTopicVerifierCall ==
    /\ given.fn = "SNSTopicVerifier" /\ returned = None
    /\ returned' = SNSTopicVerifier_verify(given.seen)
    /\ UNCHANGED <<given, agg, suiteVars, registry, serviceVars>>

SQSQueueVerifierCall ==
    /\ given.fn = "SQSQueueVerifier" /\ returned = None
    /\ returned' = SQSQueueVerifier_verify(given.seen)
    /\ UNCHANGED <<given, agg, suiteVars, registry, serviceVars>>

S3ApplicationLogsVerifierCall ==
    /\ given.fn = "S3ApplicationLogsVerifier" /\ returned = None
    /\ returned' = S3ApplicationLogsVerifier_verify(given.seen)
    /\ UNCHANGED <<given, agg, suiteVars, registry, serviceVars>>

S3SetBucketPrivateVerifierCall ==
    /\ given.fn = "S3SetBucketPrivateVerifier" /\ returned = None
    /\ returned' = S3SetBucketPrivateVerifier_verify(given.seen)
    /\ UNCHANGED <<given, agg, suiteVars, registry, serviceVars>>

AwsCliToolCall ==
    /\ given.fn = "aws_cli_tool" /\ returned = None
    /\ returned' = aws_cli_tool(given.args, given.env)
    /\ UNCHANGED <<given, agg, suiteVars, registry, serviceVars>>

CallNext ==
    \/ RecordActionCall
    \/ ScoringWeightsCall
    \/ S3BucketVerifierCall
    \/ S3BackupsBucketVerifierCall
    \/ SNSTopicVerifierCall
    \/ SQSQueueVerifierCall
    \/ S3ApplicationLogsVerifierCall
    \/ S3SetBucketPrivateVerifierCall
    \/ AwsCliToolCall

CallSpec == CallInit /\ [][CallNext]_vars

\* the verifiers shipped with the tasks
ShippedVerifiers ==
    {"S3BucketVerifier", "S3BackupsBucketVerifier", "SNSTopicVerifier",
     "SQSQueueVerifier", "S3ApplicationLogsVerifier", "S3SetBucketPrivateVerifier"}

\* a shipped verifier's verify() has returned
VerifierReturned == given.fn \in ShippedVerifiers /\ returned # None

\* the value is a VerificationResult
IsVerificationResult(r) == "score" \in DOMAIN r

(***************************************************************************)
(* Claims about single calls, checked under CallSpec                       *)
(***************************************************************************)
\* the result reports an exit code, and it is not zero
ReportsNonZeroExit(result) ==
    "return_code" \in DOMAIN result /\ result.return_code # 0

\* C11: for every tool and every tool result, the recorded action has status
\* "error" exactly when the result reports a non-zero exit code; every other
\* result, one with empty output or with no exit code included, is "ok".
C11_StatusFromExitCode ==
    (given.fn = "_record_action" /\ returned # None) =>
        /\ returned.status \in {"ok", "error"}
        /\ returned.status = "error" <=> ReportsNonZeroExit(given.result)

RECURSIVE SumThousandths(_)
\* the sum of a sequence of weights given in thousandths, as a number
SumThousandths(q) ==
    IF q = <<>> THEN 0 ELSE q[1] + SumThousandths(Tail(q))

RegionsOf(buckets) == {buckets[i].region : i \in 1..Len(buckets)}

\* C13: every result a shipped verifier returns, whatever it observed
\* (several buckets of mixed regions and settings included), is a
\* VerificationResult with a score between 0.0 and 1.0 and every component
\* value between 0 and the declared max of the component.
C13_ScoreAndComponentsInRange ==
    VerifierReturned =>
        /\ IsVerificationResult(returned)
        /\ 0 <= returned.score /\ returned.score <= 1000
        /\ \A c \in DOMAIN returned.components :
              /\ 0 <= returned.components[c].value
              /\ returned.components[c].value <= returned.components[c].max

\* the simple-bucket verifier has scored several buckets of mixed regions,
\* one component ending strictly between 0 and its max
C13_Witness ==
    /\ VerifierReturned
    /\ given.fn = "S3BucketVerifier"
    /\ Len(given.buckets) >= 2
    /\ {"us-east-1", "eu-west-1"} \subseteq RegionsOf(given.buckets)
    /\ IsVerificationResult(returned)
    /\ returned.score > 0
    /\ \E c \in DOMAIN returned.components :
          /\ 0 < returned.components[c].value
          /\ returned.components[c].value < returned.components[c].max

RECURSIVE SumOfValues(_, _)
\* the sum of the values of the components named in names, in thousandths
SumOfValues(components, names) ==
    IF names = {} THEN 0
    ELSE LET n == CHOOSE n \in names : TRUE
         IN components[n].value + SumOfValues(components, names \ {n})

\* C14: in every result a shipped verifier returns, the score equals the sum
\* of the component values the result reports, both at three decimals; also
\* when the result is an average over several buckets or has no components.
C14_ScoreIsSumOfComponents ==
    (VerifierReturned /\ IsVerificationResult(returned)) =>
        returned.score = SumOfValues(returned.components, DOMAIN returned.components)

TargetMissing ==
    CASE given.fn = "S3BucketVerifier" ->
            \A i \in 1..Len(given.buckets) :
                ~(given.buckets[i].head /\ given.buckets[i].region = "us-east-1")
      [] given.fn = "S3BackupsBucketVerifier" ->
            \A i \in 1..Len(given.buckets) : ~given.buckets[i].head
      [] given.fn = "SNSTopicVerifier" -> given.seen.list_ok /\ ~given.seen.found
      [] given.fn = "SQSQueueVerifier" -> given.seen.queue_url = "missing"
      [] given.fn = "S3ApplicationLogsVerifier" -> given.seen.head = "missing"
      [] given.fn = "S3SetBucketPrivateVerifier" -> ~given.seen.exists
      [] OTHER -> FALSE

\* the components that score tags
TagComponents == {"tags", "best_practice_tags"}

\* C16: for every shipped verifier, when the target resource does not exist
\* the result has not passed, its tag component is 0, and its score is no
\* higher than the weights of the components that do not need the resource,
\* which is 0 for the shipped tasks.
C16_MissingTargetScoresNothing ==
    (VerifierReturned /\ TargetMissing) =>
        /\ IsVerificationResult(returned)
        /\ ~returned.passed
        /\ \A c \in DOMAIN returned.components \cap TagComponents :
              returned.components[c].value = 0
        /\ returned.score <= 0

\* the bucket to make private is missing while the policy and ACL calls
\* would have reported nothing public
C16_Witness ==
    /\ VerifierReturned
    /\ given.fn = "S3SetBucketPrivateVerifier"
    /\ ~given.seen.exists
    /\ given.seen.policy_status = "private"
    /\ ~given.seen.acl_public
    /\ returned.score = 0
    /\ ~returned.passed

\* the buckets among the observed ones that head_bucket reaches, as
\* positions in the listing
Candidates(buckets) == {i \in 1..Len(buckets) : buckets[i].head}

\* the score verify's _collect_bucket_attributes gives the bucket at i
CandidateScore(buckets, i) == S3BackupsAttributes(BucketNames[i], buckets[i]).score

\* bucket i has the highest score among the candidates in among
HighestAmong(buckets, i, among) ==
    i \in among /\ \A j \in among : FloatLe(CandidateScore(buckets, j),
                                            CandidateScore(buckets, i))

\* C17: in the backups verifier, for every non-empty set of candidate
\* buckets: if some bucket has no lifecycle delete/expiration action, the
\* selected bucket is one of those with the highest score among them;
\* otherwise it has the highest score among all; the components and the
\* delete-action error reported are those of the selected bucket alone.
C17_BackupsSelection ==
    (given.fn = "S3BackupsBucketVerifier" /\ returned # None
        /\ Candidates(given.buckets) # {}) =>
        LET all == Candidates(given.buckets)
            safe == {i \in all : ~given.buckets[i].delete_actions}
        IN /\ IsVerificationResult(returned)
           /\ \E i \in all :
                /\ IF safe # {} THEN HighestAmong(given.buckets, i, safe)
                   ELSE HighestAmong(given.buckets, i, all)
                /\ returned.components =
                     S3Backups_compute_components(
                        S3BackupsAttributes(BucketNames[i], given.buckets[i]))
                /\ returned.errors =
                     IF given.buckets[i].delete_actions
                     THEN <<DeleteActionsError(BucketNames[i])>> ELSE <<>>

\* a bucket with delete actions scores higher than the safe bucket that is
\* selected, and a lower-scoring safe bucket is passed over as well
C17_Witness ==
    /\ given.fn = "S3BackupsBucketVerifier"
    /\ returned # None
    /\ Len(given.buckets) = 3
    /\ \A i \in 1..3 : given.buckets[i].head
    /\ \E i, j, k \in 1..3 :
          /\ given.buckets[i].delete_actions
          /\ ~given.buckets[j].delete_actions /\ ~given.buckets[k].delete_actions
          /\ ~FloatLe(CandidateScore(given.buckets, i), CandidateScore(given.buckets, j))
          /\ ~FloatLe(CandidateScore(given.buckets, j), CandidateScore(given.buckets, k))
          /\ returned.components =
               S3Backups_compute_components(
                  S3BackupsAttributes(BucketNames[j], given.buckets[j]))
    /\ returned.errors = <<>>
    /\ returned.passed

\* aws_cli_tool got to the command it runs
AwsCommandBuilt == given.fn = "aws_cli_tool" /\ returned # None /\ ~IsRaised(returned)

\* the token overrides the endpoint: it is --endpoint-url, or starts with
\* --endpoint-url=
IsOverride(token) ==
    \/ token = <<"--endpoint-url">>
    \/ Len(token) >= 2 /\ token[1] = "--endpoint-url" /\ token[2] = "="

\* C25: for every non-empty command string the agent supplies, the command
\* _build_aws_command produces begins with aws --endpoint-url <the endpoint
\* of the tool's environment> and holds no other endpoint override after it
\* (neither the token --endpoint-url nor a token starting with
\* --endpoint-url=), wherever and however often the agent placed overrides.
C25_EndpointForced ==
    AwsCommandBuilt =>
        /\ Len(returned.aws_command) >= 3
        /\ returned.aws_command[1] = <<"aws">>
        /\ returned.aws_command[2] = <<"--endpoint-url">>
        /\ returned.aws_command[3] = <<given.env.ENDPOINT_URL>>
        /\ \A i \in 4..Len(returned.aws_command) : ~IsOverride(returned.aws_command[i])

\* the command `--endpoint-url http://evil:4566 AWS` has been built into
\* aws --endpoint-url <endpoint>
C25_Witness ==
    /\ AwsCommandBuilt
    /\ given.args.command = <<"--endpoint-url", " ", "http://evil:4566", " ", "AWS">>
    /\ returned.aws_command = <<<<"aws">>, <<"--endpoint-url">>, <<Endpoint>>>>

(***************************************************************************)
(* Claims about the verification of a run, checked under Spec              *)
(***************************************************************************)
\* C18: every verification result the orchestrator holds for its report
\* went through Verifier.run(): its score-details carry TimingInfo, and its
\* score, components, passed and errors are what verify() returned.
C18_StoredResultWentThroughRun ==
    (pc = "finish" /\ verification # None) =>
        /\ verification.score_details.timing # None
        /\ verification.score = verifierOutcome.result.score
        /\ verification.components = verifierOutcome.result.components
        /\ verification.passed = verifierOutcome.result.passed
        /\ verification.errors = verifierOutcome.result.errors

(***************************************************************************)
(* summary.py: aggregate_reports, Summary, write_summary                   *)
(***************************************************************************)
\* the largest number of report files in the directory
MaxReports == 4

\* a JSON value that is not an object (a list)
JsonList == [tag |-> "list"]

\* isinstance(data, dict), for what json.loads returns: a dict, a list or
\* None (JSON null is None)
IsDict(data) == "tag" \notin DOMAIN data

\* runs of EvaluationRunner.run that get to line 215: the meta.json, the
\* agent, and the metrics and verification the report is built from
SuiteRuns ==
    << [meta |-> [task_id |-> "sns-topic", difficulty |-> "easy", max_steps |-> 4,
                  scoring |-> EmptyDict],
        agent |-> [name |-> "openai", module |-> AgentModule, env |-> EmptyDict,
                   credentials_env |-> [OPENAI_API_KEY |-> "MY_OPENAI_KEY"],
                   model |-> "gpt-4o"],
        metrics |-> [tag |-> "metrics", duration_seconds |-> 5, step_count |-> 0,
                     score |-> 750, error_action_penalty |-> 0],
        verification |-> [score |-> 750, passed |-> TRUE, errors |-> <<>>,
                          components |-> [exists |-> [value |-> 750, max |-> 900]]]] >>

\* the report dict run() writes for such a run
RunReport(run) ==
    Report(load_scenario(run.meta), <<>>, run.metrics, run.verification, Endpoint)

\* what the *.json files under the report root can hold: whether the text
\* parses, and the parsed value (a dict, but for the last one); scores are in
\* thousandths; `run` is the run that wrote the file, if one did
ReportFiles ==
    << [parses |-> TRUE,
        data |-> [task_id |-> "sns-topic", verification |-> [passed |-> TRUE],
                  metrics |-> [score |-> 897], difficulty |-> "Easy ",
                  model |-> "gpt-4o"]],
       [parses |-> TRUE,
        data |-> [task_id |-> "sns-topic", verification |-> [passed |-> FALSE],
                  metrics |-> [score |-> 530], difficulty |-> "easy",
                  model |-> " gpt-4o"]],
       [parses |-> TRUE,
        data |-> [task_id |-> "sqs-queue", verification |-> [passed |-> TRUE],
                  metrics |-> [score |-> 877], difficulty |-> "hard",
                  model |-> "gpt-4o"]],
       [parses |-> TRUE,
        data |-> [task_id |-> "sqs-queue", metrics |-> [score |-> 679]]],
       [parses |-> TRUE,
        data |-> [verification |-> [passed |-> TRUE], metrics |-> EmptyDict,
                  difficulty |-> "hard", model |-> "  "]],
       [parses |-> TRUE,
        data |-> [task_id |-> "sns-topic", verification |-> [passed |-> TRUE],
                  metrics |-> [score |-> 1000], model |-> "gpt-4o"]],
       [parses |-> TRUE,
        data |-> [task_id |-> "sns-topic", verification |-> [passed |-> FALSE],
                  metrics |-> [score |-> 500], model |-> "gpt-4o"]],
       [parses |-> TRUE,
        data |-> [task_id |-> "sqs-queue", verification |-> None,
                  metrics |-> [score |-> 0]]],
       [parses |-> FALSE, data |-> EmptyDict],
       [parses |-> TRUE, run |-> SuiteRuns[1], data |-> RunReport(SuiteRuns[1])],
       [parses |-> TRUE, data |-> JsonList] >>

\* str.strip() on the strings the reports hold
Strip(str) ==
    CASE str = "Easy " -> "Easy"
      [] str = " gpt-4o" -> "gpt-4o"
      [] str = "  " -> ""
      [] OTHER -> str

\* str.lower() on the strings the reports hold
Lower(str) ==
    CASE str = "Easy" -> "easy"
      [] OTHER -> str

\* TaskSummary()
NewTaskSummary ==
    [count |-> 0, passed |-> 0, failed |-> 0, with_score |-> 0, total_score |-> BigZero]

\* Summary()
NewSummary ==
    [total_reports |-> 0, passed |-> 0, failed |-> 0, with_score |-> 0,
     total_score |-> BigZero, by_task |-> EmptyDict, by_difficulty |-> EmptyDict,
     by_model |-> EmptyDict, by_model_difficulty |-> EmptyDict]

\* the entry of _update_task after the update; mtr is the metrics dict of the report,
\* whose get("score") is None when it has no score
UpdatedEntry(entry, mtr, passed) ==
    [count |-> entry.count + 1,
     passed |-> entry.passed + (IF passed THEN 1 ELSE 0),
     failed |-> entry.failed + (IF passed THEN 0 ELSE 1),
     with_score |-> entry.with_score + (IF "score" \in DOMAIN mtr THEN 1 ELSE 0),
     total_score |-> IF "score" \in DOMAIN mtr
                     THEN FloatAdd(entry.total_score, FloatLit(mtr.score))
                     ELSE entry.total_score]

\* dict with d[key] = value
Put(d, key, value) ==
    LET setKey(k) == IF k = key THEN value ELSE d[k]
    IN [k \in DOMAIN d \cup {key} |-> setKey(k)]

\* _update_task(container, key, score, passed): the container afterwards
_update_task(container, key, mtr, passed) ==
    Put(container, key, UpdatedEntry(Get(container, key, NewTaskSummary), mtr, passed))

\* data.get(key) or {}: a missing key and a null value give the empty dict
GetOrEmpty(data, key) ==
    IF Get(data, key, None) = None THEN EmptyDict ELSE data[key]

\* a pass decision that looks at the score only
ReportPassed_by_score(verif, mtr) == "score" \in DOMAIN mtr /\ mtr.score # 0

\* aggregate_reports, line 89: the verifier's verdict when there is a
\* (non-empty) verification, else the truthiness of metrics.score
ReportPassed(verif, mtr) ==
    IF verif # EmptyDict THEN Get(verif, "passed", FALSE)
    ELSE "score" \in DOMAIN mtr /\ mtr.score # 0

\* the body of the for loop of aggregate_reports on a dict
AggregateData(summary, data) ==
    LET verif == GetOrEmpty(data, "verification")
        mtr == GetOrEmpty(data, "metrics")
        has_score == "score" \in DOMAIN mtr
        passed == ReportPassed(verif, mtr)
        task_id == IF Get(data, "task_id", "") = "" THEN "unknown" ELSE data.task_id
        has_difficulty == "difficulty" \in DOMAIN data
        normalized == IF has_difficulty THEN Lower(Strip(data.difficulty)) ELSE ""
        has_model == "model" \in DOMAIN data /\ Strip(data.model) # ""
        model_key == IF has_model THEN Strip(data.model) ELSE ""
    IN [total_reports |-> summary.total_reports + 1,
        passed |-> summary.passed + (IF passed THEN 1 ELSE 0),
        failed |-> summary.failed + (IF passed THEN 0 ELSE 1),
        with_score |-> summary.with_score + (IF has_score THEN 1 ELSE 0),
        total_score |-> IF has_score
                        THEN FloatAdd(summary.total_score, FloatLit(mtr.score))
                        ELSE summary.total_score,
        by_task |-> _update_task(summary.by_task, task_id, mtr, passed),
        by_difficulty |->
            IF has_difficulty
            THEN Put(summary.by_difficulty, normalized,
                     Get(summary.by_difficulty, normalized, 0) + 1)
            ELSE summary.by_difficulty,
        by_model |->
            IF has_model THEN _update_task(summary.by_model, model_key, mtr, passed)
            ELSE summary.by_model,
        by_model_difficulty |->
            IF has_model /\ has_difficulty
            THEN Put(summary.by_model_difficulty, model_key,
                     _update_task(Get(summary.by_model_difficulty, model_key, EmptyDict),
                                  normalized, mtr, passed))
            ELSE summary.by_model_difficulty]

\* one iteration of the for loop on a path: summary.json is skipped by its
\* name, a file that does not parse is skipped; line 86 calls data.get,
\* which a list or None does not have
AggregatePath(summary, name, file) ==
    IF name = "summary.json" THEN summary
    ELSE IF ~file.parses THEN summary
    ELSE IF ~IsDict(file.data) THEN Raised("AttributeError")
    ELSE AggregateData(summary, file.data)

\* round(x, 4) of the quotient of a float by a count, 0.0 when the count is
\* 0; in ten-thousandths
RoundedRatio(x, n) == IF n = 0 THEN 0 ELSE RoundDigits(FloatDivInt(x, n), 4)

\* TaskSummary.to_dict; avg_score and pass_rate in ten-thousandths
TaskSummary_to_dict(ts) ==
    [count |-> ts.count, passed |-> ts.passed, failed |-> ts.failed,
     avg_score |-> RoundedRatio(ts.total_score, ts.with_score),
     pass_rate |-> RoundedRatio(BigInt(ts.passed), ts.count)]

\* a to_dict that averages the scores over all the reports
Summary_to_dict_over_reports(summary) ==
    [total_reports |-> summary.total_reports,
     passed |-> summary.passed,
     failed |-> summary.failed,
     avg_score |-> RoundedRatio(summary.total_score, summary.total_reports),
     pass_rate |-> RoundedRatio(BigInt(summary.passed), summary.total_reports),
     by_task |-> [t \in DOMAIN summary.by_task |-> TaskSummary_to_dict(summary.by_task[t])],
     by_difficulty |-> summary.by_difficulty,
     by_model |-> [m \in DOMAIN summary.by_model |->
                      TaskSummary_to_dict(summary.by_model[m])],
     by_model_difficulty |->
        [m \in DOMAIN summary.by_model_difficulty |->
            [d \in DOMAIN summary.by_model_difficulty[m] |->
                TaskSummary_to_dict(summary.by_model_difficulty[m][d])]]]

\* Summary.to_dict; avg_score and pass_rate in ten-thousandths
Summary_to_dict(summary) ==
    [total_reports |-> summary.total_reports,
     passed |-> summary.passed,
     failed |-> summary.failed,
     avg_score |-> RoundedRatio(summary.total_score, summary.with_score),
     pass_rate |-> RoundedRatio(BigInt(summary.passed), summary.total_reports),
     by_task |-> [t \in DOMAIN summary.by_task |-> TaskSummary_to_dict(summary.by_task[t])],
     by_difficulty |-> summary.by_difficulty,
     by_model |-> [m \in DOMAIN summary.by_model |->
                      TaskSummary_to_dict(summary.by_model[m])],
     by_model_difficulty |->
        [m \in DOMAIN summary.by_model_difficulty |->
            [d \in DOMAIN summary.by_model_difficulty[m] |->
                TaskSummary_to_dict(summary.by_model_difficulty[m][d])]]]

\* the report directories: the report root is missing, or it holds up to
\* MaxReports files, each with one of the contents of ReportFiles (given by
\* position in ReportFiles; the listing is kept sorted, the order in which
\* rglob yields the files is not fixed by it)
ReportDirectories ==
    {[fn |-> "aggregate_reports", root_exists |-> FALSE, files |-> <<>>]}
    \cup [fn : {"aggregate_reports"}, root_exists : {TRUE},
          files : {q \in SeqsUpTo(1..Len(ReportFiles), MaxReports) :
                     \A i, j \in 1..Len(q) : i < j => q[i] <= q[j]}]

\* the paths rglob("*.json") yields: the report files, and summary.json
\* (path 0) once write_summary has written it
Paths == 1..Len(given.files) \cup (IF agg.written # None THEN {0} ELSE {})

AggInit ==
    /\ SuiteIdle
    /\ registry = <<>>
    /\ ServiceIdle
    /\ given \in ReportDirectories
    /\ returned = None
    /\ agg = [run |-> 1, root_exists |-> given.root_exists, visited |-> {},
              summary |-> NewSummary, written |-> None]

\* how an iteration on a path ends: with the updated summary, or with the
\* exception leaving aggregate_reports (run 4; in run_suite the except of
\* lines 79-80 then takes over and no summary is written)
EndIteration(path, result) ==
    IF IsRaised(result)
    THEN /\ agg' = [agg EXCEPT !.run = 4, !.visited = @ \cup {path}]
         /\ returned' = result
    ELSE /\ agg' = [agg EXCEPT !.visited = @ \cup {path}, !.summary = result]
         /\ returned' = returned

\* the for loop of aggregate_reports takes the next path rglob yields
VisitPath ==
    /\ agg.run \in {1, 2}
    /\ agg.root_exists
    /\ \E path \in Paths \ agg.visited :
          EndIteration(path,
              AggregatePath(agg.summary, IF path = 0 THEN "summary.json" ELSE "report.json",
                            IF path = 0 THEN [parses |-> TRUE, data |-> agg.written]
                            ELSE ReportFiles[given.files[path]]))
    /\ UNCHANGED <<given, suiteVars, registry, serviceVars>>

\* the first aggregate_reports returns its summary (at once when the root is
\* missing), write_summary creates the root if need be and writes
\* summary.json, and aggregate_reports is called again
WriteSummaryAndRerun ==
    /\ agg.run = 1
    /\ ~agg.root_exists \/ agg.visited = Paths
    /\ agg' = [run |-> 2, root_exists |-> TRUE, visited |-> {}, summary |-> NewSummary,
               written |-> Summary_to_dict(agg.summary)]
    /\ UNCHANGED <<given, returned, suiteVars, registry, serviceVars>>

\* the second aggregate_reports returns its summary
ReturnSummary ==
    /\ agg.run = 2
    /\ agg.visited = Paths
    /\ returned' = agg.summary
    /\ agg' = [agg EXCEPT !.run = 3]
    /\ UNCHANGED <<given, suiteVars, registry, serviceVars>>

AggNext ==
    \/ VisitPath
    \/ WriteSummaryAndRerun
    \/ ReturnSummary

AggSpec == AggInit /\ [][AggNext]_vars

(***************************************************************************)
(* Claims about the summary aggregator, checked under AggSpec              *)
(***************************************************************************)
RECURSIVE AggregateInListingOrder(_, _)
\* the Summary of the first n files of the listing, visited in its order
AggregateInListingOrder(files, n) ==
    IF n = 0 THEN NewSummary
    ELSE AggregatePath(AggregateInListingOrder(files, n - 1), "report.json",
                       ReportFiles[files[n]])

\* both runs of aggregate_reports have returned
AggregatedTwice == agg.run = 3

\* C19: aggregate_reports is idempotent and order-independent: the second
\* run over the unchanged directory, summary.json now in it, yields the
\* statistics the first run yielded, and whatever the order in which the
\* files are visited the counts, totals and per-key breakdowns are those of
\* any other order.
C19_AggregationOrderIndependent ==
    AggregatedTwice =>
        /\ Summary_to_dict(returned) = agg.written
        /\ Summary_to_dict(returned) =
             Summary_to_dict(AggregateInListingOrder(given.files, Len(given.files)))

\* the files of the directory are all well-formed reports
AllWellFormed == \A i \in 1..Len(given.files) : ReportFiles[given.files[i]].parses

\* the files whose metrics hold a score
FilesWithScore(files) ==
    {i \in 1..Len(files) : "score" \in DOMAIN Get(ReportFiles[files[i]].data, "metrics", EmptyDict)}

RECURSIVE SumOfScores(_, _)
\* the sum of the scores of the files at the positions in at, in thousandths
SumOfScores(files, at) ==
    IF at = {} THEN 0
    ELSE LET i == CHOOSE i \in at : TRUE
         IN ReportFiles[files[i]].data.metrics.score + SumOfScores(files, at \ {i})

\* the whole number r is num / den rounded to the nearest (either neighbour
\* when num / den lies halfway between two)
IsNearest(r, num, den) ==
    /\ 2 * (r * den - num) <= den
    /\ 2 * (num - r * den) <= den

\* the general statement of C20 about the returned Summary and its to_dict
SummaryStatisticsHold ==
    LET d == Summary_to_dict(returned)
        scored == FilesWithScore(given.files)
    IN /\ d.total_reports = Len(given.files)
       /\ d.total_reports = d.passed + d.failed
       /\ returned.with_score = Cardinality(scored)
       /\ IF scored = {} THEN d.avg_score = 0
          ELSE IsNearest(d.avg_score, 10 * SumOfScores(given.files, scored),
                         Cardinality(scored))
       /\ IF d.total_reports = 0 THEN d.pass_rate = 0
          ELSE IsNearest(d.pass_rate, 10000 * d.passed, d.total_reports)

\* the directory of the example: scores 1.0 (passed), 0.5 (failed) and a
\* passed report with no score
ExampleDirectory == given.files = <<5, 6, 7>>

\* C20 as stated: after aggregating well-formed reports, total_reports is
\* their number and is passed + failed, with_score counts the reports with
\* a score, avg_score is the sum of the scores over with_score (0 when there
\* is none), pass_rate is passed over total_reports; scores 1.0, 0.5 and
\* none with two passed give total 3, with_score 2, avg 0.75 and pass_rate
\* 0.667.
C20_SummaryStatistics ==
    (AggregatedTwice /\ AllWellFormed) =>
        /\ SummaryStatisticsHold
        /\ ExampleDirectory =>
              /\ Summary_to_dict(returned).total_reports = 3
              /\ returned.with_score = 2
              /\ Summary_to_dict(returned).avg_score = 7500
              /\ Summary_to_dict(returned).pass_rate = 6670

\* C20 amended: the same, avg_score and pass_rate being rounded to four
\* decimals, so that the example gives pass_rate 0.6667.
C20_SummaryStatisticsTo4Decimals ==
    (AggregatedTwice /\ AllWellFormed) =>
        /\ SummaryStatisticsHold
        /\ ExampleDirectory =>
              /\ Summary_to_dict(returned).total_reports = 3
              /\ returned.with_score = 2
              /\ Summary_to_dict(returned).avg_score = 7500
              /\ Summary_to_dict(returned).pass_rate = 6667

\* the example directory has been aggregated: two passed, two with a score
C20_Witness ==
    /\ AggregatedTwice
    /\ ExampleDirectory
    /\ returned.passed = 2
    /\ returned.failed = 1
    /\ returned.with_score = 2
    /\ returned.total_reports = 3

\* the file at position i of the listing
FileAt(i) == ReportFiles[given.files[i]]

\* the report files among the visited paths that aggregate_reports counts:
\* those that parse to a JSON object
Counted(paths) == {i \in paths \ {0} : FileAt(i).parses /\ IsDict(FileAt(i).data)}

\* the report has a verification: the key holds an object with entries
\* (run() writes null when no verifier result is at hand)
HasVerification(data) ==
    /\ "verification" \in DOMAIN data
    /\ data.verification # None
    /\ data.verification # EmptyDict

\* bool(metrics.score): a score that is there and is not 0
ScoreTruthy(data) ==
    /\ "metrics" \in DOMAIN data
    /\ data.metrics # None
    /\ "score" \in DOMAIN data.metrics
    /\ data.metrics.score # 0

\* what the report counts as: the verdict of its verification, else the
\* truthiness of its score
CountsAsPassed(data) ==
    IF HasVerification(data)
    THEN "passed" \in DOMAIN data.verification /\ data.verification.passed
    ELSE ScoreTruthy(data)

\* C21: every counted report is counted as passed by the verifier's explicit
\* passed verdict when it has a verification, whatever its score, and by
\* the truthiness of metrics.score only when it has no verification.
C21_PassedByVerdict ==
    agg.run \in 1..4 =>
        /\ agg.summary.passed =
             Cardinality({i \in Counted(agg.visited) : CountsAsPassed(FileAt(i).data)})
        /\ agg.summary.failed =
             Cardinality({i \in Counted(agg.visited) : ~CountsAsPassed(FileAt(i).data)})

\* aggregated: a failed verdict with score 0.53, a passed verdict with no
\* score, no verification with score 0.679, a null verification with score 0
C21_Witness ==
    /\ AggregatedTwice
    /\ given.files = <<2, 4, 5, 8>>
    /\ returned.passed = 2
    /\ returned.failed = 2

\* the file is malformed: its text is not JSON, or is JSON that is not an
\* object
Malformed(file) == ~file.parses \/ ~IsDict(file.data)

\* the calls of aggregate_reports are over: both returned, or one raised
AggregationEnded == agg.run \in {3, 4}

\* C22: a malformed report file (unparseable JSON, or JSON that is not a
\* report object) is skipped silently: aggregate_reports raises nothing, the
\* file is counted neither in total_reports nor in a breakdown, and every
\* other report of the directory is still aggregated.
C22_MalformedSkipped ==
    (AggregationEnded /\ \E i \in 1..Len(given.files) : Malformed(FileAt(i))) =>
        /\ ~IsRaised(returned)
        /\ returned.total_reports =
             Cardinality({i \in 1..Len(given.files) : ~Malformed(FileAt(i))})
        /\ returned.passed + returned.failed = returned.total_reports

\* the file was written by a run of the suite
WrittenByRun(file) == "run" \in DOMAIN file

\* the summary has the report of the run in its totals for the task id, for
\* the declared difficulty, and for the agent's model crossed with it
FoldedIn(summary, run) ==
    /\ run.meta.task_id \in DOMAIN summary.by_task
    /\ summary.by_task[run.meta.task_id].count >= 1
    /\ summary.by_task[run.meta.task_id].with_score >= 1
    /\ run.meta.difficulty \in DOMAIN summary.by_difficulty
    /\ run.agent.model \in DOMAIN summary.by_model_difficulty
    /\ run.meta.difficulty \in DOMAIN summary.by_model_difficulty[run.agent.model]

\* C23: every report a suite run writes is folded by aggregate_reports, with
\* its count, pass/fail and score, into the running totals for its task id,
\* for its scenario's declared difficulty bucket, and for its agent/model
\* crossed with difficulty.
C23_WrittenReportsFolded ==
    AggregatedTwice =>
        \A i \in 1..Len(given.files) :
            WrittenByRun(FileAt(i)) => FoldedIn(returned, FileAt(i).run)

(***************************************************************************)
(* tools.py: ToolRegistry                                                  *)
(***************************************************************************)
\* the ToolDefinitions handed to register (execute and metadata left out)
ToolDefinitions ==
    [name : {"aws_cli", "kubectl", "terraform"},
     description : {"Run a generic AWS CLI command against LocalStack.", "Another tool."},
     schema : {"object"}]

\* the names get is asked for
ToolNames == {"aws_cli", "kubectl", "terraform", "rm_rf"}

\* name in self._tools; the dict is the sequence of its values, in insertion
\* order
ToolRegistry_has(tools, name) == \E i \in 1..Len(tools) : tools[i].name = name

\* a register without the check of the name: the dict assignment replaces
\* the value of a key it holds, which keeps its place
ToolRegistry_register_overwriting(tools, tool) ==
    [raised |-> "",
     tools |-> IF ToolRegistry_has(tools, tool.name)
               THEN [i \in 1..Len(tools) |->
                        IF tools[i].name = tool.name THEN tool ELSE tools[i]]
               ELSE Append(tools, tool)]

\* ToolRegistry.register: the exception raised ("" if none) and the dict
\* afterwards
ToolRegistry_register(tools, tool) ==
    IF ToolRegistry_has(tools, tool.name)
    THEN [raised |-> "ValueError", tools |-> tools]
    ELSE [raised |-> "", tools |-> Append(tools, tool)]

\* ToolRegistry.get
ToolRegistry_get(tools, name) ==
    IF ToolRegistry_has(tools, name)
    THEN tools[CHOOSE i \in 1..Len(tools) : tools[i].name = name]
    ELSE None

\* ToolRegistry.descriptions
ToolRegistry_descriptions(tools) ==
    [i \in 1..Len(tools) |->
        [name |-> tools[i].name, description |-> tools[i].description,
         parameters |-> tools[i].schema]]

\* ToolRegistry(): no tool
RegistryInit ==
    /\ SuiteIdle
    /\ given = NoCall
    /\ returned = None
    /\ agg = NoAggregation
    /\ registry = <<>>
    /\ ServiceIdle

\* how register(tool) leaves the registry and the caller
Registered(result) ==
    /\ registry' = result.tools
    /\ returned' = IF result.raised # "" THEN Raised(result.raised) ELSE None

RegisterCall ==
    /\ \E tool \in ToolDefinitions :
         /\ given' = [fn |-> "register", tool |-> tool]
         /\ Registered(ToolRegistry_register(registry, tool))
    /\ UNCHANGED <<agg, suiteVars, serviceVars>>

GetCall ==
    /\ \E name \in ToolNames :
         /\ given' = [fn |-> "get", name |-> name]
         /\ returned' = ToolRegistry_get(registry, name)
    /\ UNCHANGED <<registry, agg, suiteVars, serviceVars>>

DescriptionsCall ==
    /\ given' = [fn |-> "descriptions"]
    /\ returned' = ToolRegistry_descriptions(registry)
    /\ UNCHANGED <<registry, agg, suiteVars, serviceVars>>

RegistryNext ==
    \/ RegisterCall
    \/ GetCall
    \/ DescriptionsCall

RegistrySpec == RegistryInit /\ [][RegistryNext]_vars

(***************************************************************************)
(* Claims about the tool registry, checked under RegistrySpec              *)
(***************************************************************************)
\* descriptions lists no name twice
ListedOnce ==
    \A i, j \in 1..Len(registry) :
        ToolRegistry_descriptions(registry)[i].name =
            ToolRegistry_descriptions(registry)[j].name => i = j

\* the description entry of a tool
Described(tool) ==
    [name |-> tool.name, description |-> tool.description, parameters |-> tool.schema]

\* a register call: of a name the registry holds, it raises and get and
\* descriptions give what they gave; of a new name, descriptions gains the
\* tool at its end
RegisterStep ==
    given'.fn = "register" =>
        IF ToolRegistry_has(registry, given'.tool.name)
        THEN /\ returned' = Raised("ValueError")
             /\ ToolRegistry_get(registry', given'.tool.name) =
                  ToolRegistry_get(registry, given'.tool.name)
             /\ ToolRegistry_descriptions(registry') = ToolRegistry_descriptions(registry)
             /\ registry' = registry
        ELSE /\ returned' = None
             /\ ToolRegistry_descriptions(registry') =
                  Append(ToolRegistry_descriptions(registry), Described(given'.tool))

\* C24: the tool registry is write-once: registering a name that already
\* exists raises and leaves the registry unchanged (get still returns the
\* first tool, descriptions is unchanged), and after any sequence of
\* register calls descriptions lists each registered tool exactly once, in
\* registration order.
C24_RegistryWriteOnce == []ListedOnce /\ [][RegisterStep]_vars

\* a second register of aws_cli, with another description, has raised; the
\* registry holds the first aws_cli and a tool registered after it
C24_Witness ==
    /\ given.fn = "register"
    /\ given.tool.name = "aws_cli"
    /\ given.tool.description = "Another tool."
    /\ returned = Raised("ValueError")
    /\ Len(registry) = 2
    /\ registry[1].name = "aws_cli"
    /\ registry[1].description = "Run a generic AWS CLI command against LocalStack."

(***************************************************************************)
(* Claims about the report and the agent's environment, checked under Spec *)
(***************************************************************************)
\* C26: each scenario run writes its report exactly once and the report
\* directory is append-only: every EvaluationRunner.run call adds one new
\* report file and never overwrites a report written earlier, by another
\* scenario of the same suite run or by another run that shares the report
\* directory and session label.
C26_ReportWrittenOnce ==
    [][pc = "finish" =>
          /\ Len(reports') = Len(reports) + 1
          /\ \A i \in 1..Len(reports) : reports'[i] = reports[i]]_vars

\* _run_agent has assembled the environment it hands to the agent module
EnvAssembled == env # EmptyDict

\* C29: the ENDPOINT_URL of the environment the runner hands to the agent
\* always equals the endpoint the runner was constructed with (the one the
\* verifier inspects), whatever entries the agent definition's env and
\* forwarded credentials hold.
C29_AgentEndpointIsRunnerEndpoint ==
    EnvAssembled => env.ENDPOINT_URL = Endpoint

\* the agent definition names a module to run and declares a model
DeclaresModel == agent # None /\ agent.module # "" /\ agent.model # ""

\* C30: whenever the agent definition declares a model, the environment
\* assembled for the agent has OPENAI_MODEL equal to that model, whether or
\* not credentials_env has entries and whether or not their source
\* variables are set; a missing credential source never aborts the run.
C30_ModelForwarded ==
    DeclaresModel =>
        /\ escaped # "UnboundLocalError"
        /\ pc \in {"loop", "agent_exit", "verify", "finish"} =>
              /\ "OPENAI_MODEL" \in DOMAIN env
              /\ env.OPENAI_MODEL = agent.model

(***************************************************************************)
(* The service: POST /api/evaluate, the background evaluation task and     *)
(* GET /api/status/{run_id}                                                *)
(***************************************************************************)
\* the evaluation runs one service process is asked for
MaxRuns == 2

\* the values uuid4 hands out
RunIdPool == <<"run-1", "run-2", "run-3">>

RunIds == {RunIdPool[i] : i \in 1..MaxRuns}

\* datetime.utcnow().isoformat(), a non-empty string
UtcNow == "utcnow"

\* the ways run_suite ends: SystemExit when there is no scenario, otherwise
\* the exception that leaves the first scenario's run
SuiteEndings == {"SystemExit", "ValueError", "AttributeError", "UnboundLocalError"}

\* run_suite ends in no other way
SuiteEndsInEndings == pc = "suite_end" => escaped \in SuiteEndings

\* SystemExit derives from BaseException, the others from Exception
IsException(ending) == ending # "SystemExit"

\* the entry evaluate creates
QueuedTask ==
    [status |-> "queued", created_at |-> UtcNow, started_at |-> "",
     completed_at |-> "", error |-> "", report_path |-> ""]

\* str(report_dir / run_id), named by its last component
SessionReportDir(run_id) == run_id

\* the part of _run_evaluation_task after the await: the task entry afterwards
TaskEnded(task, run_id, ending) ==
    LET ended == IF ending = ""
                 THEN [task EXCEPT !.status = "completed",
                                   !.report_path = SessionReportDir(run_id)]
                 ELSE IF IsException(ending)
                      THEN [task EXCEPT !.status = "failed", !.error = ending]
                      ELSE task
    IN [ended EXCEPT !.completed_at = UtcNow]

ServiceInit ==
    /\ SuiteIdle
    /\ given = NoCall
    /\ returned = None
    /\ agg = NoAggregation
    /\ registry = <<>>
    /\ ServiceIdle

\* POST /api/evaluate
Evaluate ==
    /\ Cardinality(DOMAIN task_store) < MaxRuns
    /\ \E run_id \in RunIds \ DOMAIN task_store :
          /\ task_store' = Put(task_store, run_id, QueuedTask)
          /\ tasks' = Put(tasks, run_id, "scheduled")
          /\ client' = [posted |-> run_id,
                        response |-> [request |-> "evaluate", code |-> 200,
                                      run_id |-> run_id, status |-> "queued"]]
    /\ UNCHANGED <<given, returned, agg, registry, suiteVars>>

\* the event loop starts the task: it runs up to the await
TaskStart ==
    /\ \E run_id \in DOMAIN tasks :
          /\ tasks[run_id] = "scheduled"
          /\ task_store' = [task_store EXCEPT ![run_id].status = "running",
                                              ![run_id].started_at = UtcNow]
          /\ tasks' = [tasks EXCEPT ![run_id] = "executor"]
    /\ UNCHANGED <<client, given, returned, agg, registry, suiteVars>>

\* run_suite ends in the executor's thread
SuiteEnds ==
    /\ \E run_id \in DOMAIN tasks, ending \in SuiteEndings :
          /\ tasks[run_id] = "executor"
          /\ tasks' = [tasks EXCEPT ![run_id] = ending]
    /\ UNCHANGED <<task_store, client, given, returned, agg, registry, suiteVars>>

\* the event loop resumes the task after the await
TaskResume ==
    /\ \E run_id \in DOMAIN tasks :
          /\ tasks[run_id] \in SuiteEndings
          /\ task_store' = [task_store EXCEPT
                               ![run_id] = TaskEnded(@, run_id, tasks[run_id])]
          /\ tasks' = [tasks EXCEPT ![run_id] = "done"]
    /\ UNCHANGED <<client, given, returned, agg, registry, suiteVars>>

\* the response of GET /api/status/{run_id}
StatusResponse(store, run_id) ==
    IF run_id \notin DOMAIN store
    THEN [request |-> "status", run_id |-> run_id, code |-> 404, status |-> ""]
    ELSE [request |-> "status", run_id |-> run_id, code |-> 200,
          status |-> store[run_id].status]

\* GET /api/status/{run_id}; after_post tells that it is the client's first
\* request after its POST, for the run id the POST returned
Status ==
    /\ \E run_id \in RunIds \cup {"nonexistent"} :
          client' = [posted |-> "",
                     response |-> [answer |-> StatusResponse(task_store, run_id),
                                   after_post |-> run_id = client.posted]]
    /\ UNCHANGED <<task_store, tasks, given, returned, agg, registry, suiteVars>>

ServiceNext ==
    \/ Evaluate
    \/ TaskStart
    \/ SuiteEnds
    \/ TaskResume
    \/ Status

ServiceSpec == ServiceInit /\ [][ServiceNext]_vars

(***************************************************************************)
(* Claims about the service, checked under ServiceSpec                     *)
(***************************************************************************)
\* queued -> running -> completed or failed, never back
MovesForward(before, after) ==
    \/ after = before
    \/ before = "queued" /\ after = "running"
    \/ before = "running" /\ after \in {"completed", "failed"}

Finished(task) == task.status \in {"completed", "failed"}

TaskFieldsAgree(task) ==
    /\ task.completed_at # "" <=> Finished(task)
    /\ task.report_path # "" => task.status = "completed"
    /\ task.error # "" => task.status = "failed"

\* C27: for every evaluation run the service creates, its status only moves
\* forward through queued, running, then completed or failed, whatever way
\* the suite run ends; completed_at is set exactly when the status is
\* completed or failed, report_path only when completed, error only when
\* failed.
C27_StatusLifecycle ==
    /\ [](\A run_id \in DOMAIN task_store : TaskFieldsAgree(task_store[run_id]))
    /\ [][\A run_id \in DOMAIN task_store :
             MovesForward(task_store[run_id].status, task_store'[run_id].status)]_vars
    /\ [](\A run_id \in DOMAIN tasks :
             tasks[run_id] = "done" => Finished(task_store[run_id]))

StatusAnswered == "answer" \in DOMAIN client.response

\* C28: for every interleaving of the background evaluation worker with
\* request handling, the status request issued right after a successful
\* POST /api/evaluate finds the returned run_id (never 404) and reports
\* status queued or running; a status request for a run id that was never
\* created returns 404.
C28_StatusAfterPost ==
    StatusAnswered =>
        /\ client.response.after_post =>
              /\ client.response.answer.code = 200
              /\ client.response.answer.status \in {"queued", "running"}
        /\ client.response.answer.run_id \notin DOMAIN task_store =>
              client.response.answer.code = 404

====
